---- MODULE Spec2Model ----
(***************************************************************************)
(* A model of the data core of ubuntu-merges (src/services/api.ts):        *)
(*   parseAgeToDays        the duration parser                             *)
(*   normalizeData         the record normalizer                           *)
(*   extractChangelogEntry the changelog entry extractor                   *)
(* Strings are tuples of one-character strings, so that containment,       *)
(* trimming, case folding and concatenation are computed, not assumed.     *)
(* Numbers produced by parseFloat are IEEE-754 doubles: a 53-bit mantissa  *)
(* (a tuple of bits, most significant first) and the exponent of its last  *)
(* bit, rounded to nearest-even exactly as the engine rounds them.         *)
(***************************************************************************)
EXTENDS Integers, Sequences, FiniteSets, TLC

VARIABLES
    phase,      \* which call the program is in: "input", "done"
    ageInput,   \* the argument of parseAgeToDays (a JS value)
    ageOut,     \* what parseAgeToDays returned
    rawData,    \* the payload handed to normalizeData
    component,  \* the PackageSet tag handed to normalizeData
    normOut,    \* what normalizeData returned (or that it threw)
    batchData,  \* the four decoded payloads of fetchMergeData, by tag
    mergeOut,   \* what fetchMergeData resolved with
    fullText,   \* the changelog text handed to extractChangelogEntry
    targetVersion, \* the version handed to extractChangelogEntry
    extractOut, \* what extractChangelogEntry returned
    validText,  \* the text handed to isValidChangelog
    validOut,   \* what isValidChangelog returned
    fb,         \* the calls of fetchDataWithFallback / fetchTextWithFallback, by job
    gather,     \* the Promise.all of fetchMergeData: its state and who settled, in order
    cl,         \* the call of fetchChangelog: its package, candidates, position and outcome
    packageList, \* the state of a mounted PackageList: its data, filters, sort and page
    dashboard,  \* the statistics of a mounted Dashboard
    dcl,        \* the call of fetchDebianChangelog: its package, sources, position and outcome
    comparisonModal, \* a mounted ComparisonModal: its props, state and effect runs
    changelogModal, \* a mounted ChangelogModal: its props, state and effect runs
    app         \* the App: its data, loading and error state and its loadData attempts

vars == <<phase, ageInput, ageOut, rawData, component, normOut,
          batchData, mergeOut, fullText, targetVersion, extractOut,
          validText, validOut, fb, gather, cl, packageList, dashboard, dcl,
          comparisonModal, changelogModal, app>>

(***************************************************************************)
(* Bounds of the model.                                                    *)
(***************************************************************************)
MaxAgeLen == 3
MaxAgeNum == 12
MaxKeys == 2
MaxPos == 4
MaxEntries == 2
MaxBatch == 2
MaxLines == 4
MaxFill == 52

(***************************************************************************)
(* Characters and strings.                                                 *)
(***************************************************************************)
Digits == <<"0", "1", "2", "3", "4", "5", "6", "7", "8", "9">>
UpperChars == <<"A","B","C","D","E","F","G","H","I","J","K","L","M",
                "N","O","P","Q","R","S","T","U","V","W","X","Y","Z">>
LowerChars == <<"a","b","c","d","e","f","g","h","i","j","k","l","m",
                "n","o","p","q","r","s","t","u","v","w","x","y","z">>

IsDigit(c) == \E i \in 1..10 : Digits[i] = c
DigitVal(c) == (CHOOSE i \in 1..10 : Digits[i] = c) - 1
IsSpace(c) == c \in {" ", "\t", "\n", "\r"}

ToLowerChar(c) ==
    IF \E i \in 1..26 : UpperChars[i] = c
    THEN LowerChars[CHOOSE i \in 1..26 : UpperChars[i] = c]
    ELSE c

\* Code units outside ASCII are written by their code point.  U+0130, the
\* capital I with a dot above, is the one character whose lower case is two
\* code units: i and the combining dot U+0307.
CapitalIDot == "U+0130"
CombiningDot == "U+0307"
LowerOf(c) == IF c = CapitalIDot THEN <<"i", CombiningDot>> ELSE <<ToLowerChar(c)>>

\* String.prototype.toLowerCase
RECURSIVE toLowerCase(_)
toLowerCase(s) == IF s = <<>> THEN <<>> ELSE LowerOf(Head(s)) \o toLowerCase(Tail(s))

RECURSIVE trimStart(_)
trimStart(s) ==
    IF s # <<>> /\ IsSpace(Head(s)) THEN trimStart(Tail(s)) ELSE s

RECURSIVE trimEnd(_)
trimEnd(s) ==
    IF s # <<>> /\ IsSpace(s[Len(s)]) THEN trimEnd(SubSeq(s, 1, Len(s) - 1)) ELSE s

\* String.prototype.trim
trim(s) == trimEnd(trimStart(s))

\* String.prototype.includes
includes(s, sub) ==
    \E i \in 1..(Len(s) - Len(sub) + 1) : SubSeq(s, i, i + Len(sub) - 1) = sub

\* String.prototype.startsWith
startsWith(s, pre) == Len(s) >= Len(pre) /\ SubSeq(s, 1, Len(pre)) = pre

RECURSIVE NatToChars(_)
NatToChars(n) ==
    IF n < 10 THEN <<Digits[n + 1]>>
    ELSE NatToChars(n \div 10) \o <<Digits[(n % 10) + 1]>>

\* Number::toString of an integer
IntToChars(n) == IF n < 0 THEN <<"-">> \o NatToChars(-n) ELSE NatToChars(n)

\* the longest run of decimal digits at the head of s
RECURSIVE DigitRun(_)
DigitRun(s) ==
    IF s # <<>> /\ IsDigit(Head(s)) THEN <<Head(s)>> \o DigitRun(Tail(s)) ELSE <<>>

RECURSIVE DigitsToNat(_)
DigitsToNat(ds) ==
    IF ds = <<>> THEN 0
    ELSE 10 * DigitsToNat(SubSeq(ds, 1, Len(ds) - 1)) + DigitVal(ds[Len(ds)])

RECURSIVE Pow10(_)
Pow10(k) == IF k = 0 THEN 1 ELSE 10 * Pow10(k - 1)

(***************************************************************************)
(* IEEE-754 doubles.  A double is NaN, an infinity, a zero, or             *)
(*   [k |-> "fin", neg, m, e]  =  (-1)^neg * m * 2^e                       *)
(* with m a tuple of MantBits bits whose first bit is 1.  The magnitudes   *)
(* the bounded inputs produce are far from the subnormal and overflow      *)
(* ranges, so only round-to-nearest-even of the mantissa is modelled.      *)
(***************************************************************************)
MantBits == 53

NaN == [k |-> "nan"]
Inf(neg) == [k |-> "inf", neg |-> neg]
Zero(neg) == [k |-> "zero", neg |-> neg]

RECURSIVE NatBits(_)
NatBits(n) == IF n = 0 THEN <<>> ELSE NatBits(n \div 2) \o <<n % 2>>

RECURSIVE BitsToNat(_)
BitsToNat(bs) ==
    IF bs = <<>> THEN 0
    ELSE 2 * BitsToNat(SubSeq(bs, 1, Len(bs) - 1)) + bs[Len(bs)]

AnyOne(bs) == \E i \in 1..Len(bs) : bs[i] = 1

\* bs + 1 on a bit tuple of fixed length; carry tells that it wrapped to 0
RECURSIVE IncBits(_)
IncBits(bs) ==
    IF bs = <<>> THEN [bits |-> <<>>, carry |-> TRUE]
    ELSE IF bs[Len(bs)] = 0
         THEN [bits |-> SubSeq(bs, 1, Len(bs) - 1) \o <<1>>, carry |-> FALSE]
         ELSE LET r == IncBits(SubSeq(bs, 1, Len(bs) - 1))
              IN [bits |-> r.bits \o <<0>>, carry |-> r.carry]

\* The double nearest to bits * 2^e (+ a non-zero tail below the last bit
\* when sticky), ties to even.  bits starts with a 1.
RoundToDouble(neg, bits, e, sticky) ==
    LET L == Len(bits) IN
    IF L <= MantBits
    THEN [k |-> "fin", neg |-> neg,
          m |-> bits \o [i \in 1..(MantBits - L) |-> 0],
          e |-> e - (MantBits - L)]
    ELSE LET keep  == SubSeq(bits, 1, MantBits)
             guard == bits[MantBits + 1]
             st    == sticky \/ AnyOne(SubSeq(bits, MantBits + 2, L))
             e53   == e + (L - MantBits)
             up    == guard = 1 /\ (st \/ keep[MantBits] = 1)
             inc   == IncBits(keep)
         IN IF ~up THEN [k |-> "fin", neg |-> neg, m |-> keep, e |-> e53]
            ELSE IF inc.carry
                 THEN [k |-> "fin", neg |-> neg,
                       m |-> <<1>> \o [i \in 1..(MantBits - 1) |-> 0],
                       e |-> e53 + 1]
                 ELSE [k |-> "fin", neg |-> neg, m |-> inc.bits, e |-> e53]

\* Binary long division of n * 2^(...) by den: the first MantBits + 1
\* significant quotient bits, the weight of the last one, and whether a
\* remainder is left below it.
RECURSIVE DivStep(_, _, _, _, _)
DivStep(r, inbits, acc, pos, den) ==
    LET b    == IF inbits = <<>> THEN 0 ELSE Head(inbits)
        rest == IF inbits = <<>> THEN <<>> ELSE Tail(inbits)
        r2   == 2 * r + b
        q    == IF r2 >= den THEN 1 ELSE 0
        r3   == r2 - q * den
        acc2 == IF acc = <<>> /\ q = 0 THEN acc ELSE Append(acc, q)
    IN IF Len(acc2) >= MantBits + 1 /\ rest = <<>>
       THEN [bits |-> acc2, e |-> pos, sticky |-> r3 # 0]
       ELSE DivStep(r3, rest, acc2, pos - 1, den)

\* The double nearest to the decimal n / den (n, den naturals, den > 0):
\* what StringToNumber yields for a decimal literal.
DecToDouble(neg, n, den) ==
    IF n = 0 THEN Zero(neg)
    ELSE LET nb == NatBits(n)
             q  == DivStep(0, nb, <<>>, Len(nb) - 1, den)
         IN RoundToDouble(neg, q.bits, q.e, q.sticky)

\* bits * u + carry for small naturals u, carry (least significant bit first
\* in the recursion, the carry of each step computed before the next)
RECURSIVE MulSmall(_, _, _)
MulSmall(bits, u, carry) ==
    IF carry < 0 THEN <<>>
    ELSE IF bits = <<>> THEN NatBits(carry)
    ELSE LET t == bits[Len(bits)] * u + carry
         IN MulSmall(SubSeq(bits, 1, Len(bits) - 1), u, t \div 2) \o <<t % 2>>

\* x * u in double arithmetic, u a positive integer constant
FMul(x, u) ==
    IF x.k = "fin" THEN RoundToDouble(x.neg, MulSmall(x.m, u, 0), x.e, FALSE)
    ELSE x

RECURSIVE Pow2(_)
Pow2(k) == IF k = 0 THEN 1 ELSE 2 * Pow2(k - 1)

\* A JS number that is an integer, NaN or an infinity (what Math.round yields)
IntNum(v) == [k |-> "int", v |-> v]

\* Math.round: the nearest integer, a tie going towards +Infinity
MathRound(x) ==
    IF x.k = "nan" THEN NaN
    ELSE IF x.k = "inf" THEN x
    ELSE IF x.k = "zero" THEN IntNum(0)
    ELSE IF x.e >= 0 THEN IntNum((IF x.neg THEN -1 ELSE 1) * BitsToNat(x.m) * Pow2(x.e))
    ELSE LET il   == MantBits + x.e        \* how many bits make the integer part
             ip   == IF il > 0 THEN BitsToNat(SubSeq(x.m, 1, il)) ELSE 0
             half == il >= 0 /\ x.m[il + 1] = 1          \* fraction >= 1/2
             more == half /\ AnyOne(SubSeq(x.m, il + 2, MantBits)) \* fraction > 1/2
         IN IF x.neg THEN IntNum(-(ip + (IF more THEN 1 ELSE 0)))
            ELSE IntNum(ip + (IF half THEN 1 ELSE 0))

\* parseFloat: the longest prefix of the trimmed string that is a
\* StrDecimalLiteral (sign, digits, '.', digits) or Infinity; NaN when there
\* is none.  The alphabets of the model hold no exponent marker.
parseFloat(str) ==
    LET s0   == trimStart(str)
        sgn  == s0 # <<>> /\ Head(s0) \in {"+", "-"}
        neg  == s0 # <<>> /\ Head(s0) = "-"
        s1   == IF sgn THEN Tail(s0) ELSE s0
        ip   == DigitRun(s1)
        s2   == SubSeq(s1, Len(ip) + 1, Len(s1))
        dot  == s2 # <<>> /\ Head(s2) = "."
        fp   == IF dot THEN DigitRun(Tail(s2)) ELSE <<>>
    IN IF startsWith(s1, <<"I","n","f","i","n","i","t","y">>) THEN Inf(neg)
       ELSE IF ip = <<>> /\ fp = <<>> THEN NaN
       ELSE DecToDouble(neg, DigitsToNat(ip \o fp), Pow10(Len(fp)))

(***************************************************************************)
(* JS values.                                                              *)
(***************************************************************************)
Undefined == [t |-> "undefined"]
Null == [t |-> "null"]
Str(s) == [t |-> "string", s |-> s]
Num(n) == [t |-> "number", n |-> n]

(***************************************************************************)
(* parseAgeToDays (src/services/api.ts 62-77)                              *)
(***************************************************************************)
YearDays == 365
MonthDays == 30
WeekDays == 7

\* String(ageInput) for the inputs parseAgeToDays is typed for
AgeString(ageIn) ==
    IF ageIn.t = "string" THEN ageIn.s ELSE IntToChars(ageIn.n)

\* a parser that looks for the day suffix before the year suffix
parseAgeToDaysStr_DayFirst(s) ==
    LET str == trim(toLowerCase(s)) IN
    IF includes(str, <<"d">>) THEN MathRound(parseFloat(str))
    ELSE IF includes(str, <<"y">>) THEN MathRound(FMul(parseFloat(str), YearDays))
    ELSE IF includes(str, <<"m", "o">>) THEN MathRound(FMul(parseFloat(str), MonthDays))
    ELSE IF includes(str, <<"w">>) THEN MathRound(FMul(parseFloat(str), WeekDays))
    ELSE IF includes(str, <<":">>) THEN IntNum(0)
    ELSE LET num == parseFloat(str)
         IN IF num.k = "nan" THEN IntNum(0) ELSE MathRound(num)

parseAgeToDaysStr(s) ==
    LET str == trim(toLowerCase(s)) IN
    IF includes(str, <<"y">>) THEN MathRound(FMul(parseFloat(str), YearDays))
    ELSE IF includes(str, <<"m", "o">>) THEN MathRound(FMul(parseFloat(str), MonthDays))
    ELSE IF includes(str, <<"w">>) THEN MathRound(FMul(parseFloat(str), WeekDays))
    ELSE IF includes(str, <<"d">>) THEN MathRound(parseFloat(str))
    ELSE IF includes(str, <<":">>) THEN IntNum(0)
    ELSE LET num == parseFloat(str)
         IN IF num.k = "nan" THEN IntNum(0) ELSE MathRound(num)

parseAgeToDays(ageIn) ==
    IF ageIn.t \in {"undefined", "null"} THEN IntNum(0)
    ELSE parseAgeToDaysStr(AgeString(ageIn))

(***************************************************************************)
(* JS values as JSON.parse yields them.  An object is its keys, in         *)
(* property order, and their values.                                       *)
(***************************************************************************)
Bool(b) == [t |-> "boolean", b |-> b]
Arr(items) == [t |-> "array", items |-> items]
Obj(keys, vals) == [t |-> "object", keys |-> keys, vals |-> vals]

\* ToBoolean: what  x || y  and  if (x)  test
Truthy(v) ==
    IF v.t \in {"undefined", "null"} THEN FALSE
    ELSE IF v.t = "boolean" THEN v.b
    ELSE IF v.t = "number" THEN v.n # 0
    ELSE IF v.t = "string" THEN v.s # <<>>
    ELSE TRUE

\* a ?? b: only undefined gives way
Or_Nullish(a, b) == IF a.t # "undefined" THEN a ELSE b

\* a || b
Or(a, b) == IF Truthy(a) THEN a ELSE b

HasKey(o, key) == \E i \in 1..Len(o.keys) : o.keys[i] = key

\* o[key]: the property's value, undefined when there is none
Get(o, key) ==
    IF HasKey(o, key) THEN o.vals[CHOOSE i \in 1..Len(o.keys) : o.keys[i] = key]
    ELSE Undefined

\* o[key] = v: an existing property keeps its place
Put(o, key, v) ==
    IF HasKey(o, key)
    THEN Obj(o.keys, [i \in 1..Len(o.keys) |-> IF o.keys[i] = key THEN v ELSE o.vals[i]])
    ELSE Obj(Append(o.keys, key), Append(o.vals, v))

\* item[i] of an array, zero-based: undefined past the end
At(a, i) == IF i < Len(a.items) THEN a.items[i + 1] ELSE Undefined

\* the outcome of a conversion or call: a value, or a TypeError thrown
Ok(s) == [ok |-> TRUE, s |-> s]
Thrown == [ok |-> FALSE]

RECURSIVE JoinChars(_, _)
JoinChars(parts, sep) ==
    IF parts = <<>> THEN <<>>
    ELSE IF Len(parts) = 1 THEN parts[1]
    ELSE parts[1] \o sep \o JoinChars(Tail(parts), sep)

\* String(v), ToString(v).  An array joins its elements with ',' (null and
\* undefined elements as ''); a plain object gives '[object Object]', unless
\* it has an own property toString: a JSON value is not callable, and
\* OrdinaryToPrimitive then finds no method that returns a primitive.
RECURSIVE JSToString(_)
JSToString(v) ==
    IF v.t = "string" THEN Ok(v.s)
    ELSE IF v.t = "number" THEN Ok(IntToChars(v.n))
    ELSE IF v.t = "boolean" THEN Ok(IF v.b THEN <<"t", "r", "u", "e">> ELSE <<"f", "a", "l", "s", "e">>)
    ELSE IF v.t = "null" THEN Ok(<<"n", "u", "l", "l">>)
    ELSE IF v.t = "undefined" THEN Ok(<<"u", "n", "d", "e", "f", "i", "n", "e", "d">>)
    ELSE IF v.t = "array"
    THEN LET parts == [i \in 1..Len(v.items) |->
                          IF v.items[i].t \in {"null", "undefined"} THEN Ok(<<>>)
                          ELSE JSToString(v.items[i])]
         IN IF \E i \in 1..Len(parts) : ~parts[i].ok THEN Thrown
            ELSE Ok(JoinChars([i \in 1..Len(parts) |-> parts[i].s], <<",">>))
    ELSE IF HasKey(v, <<"t", "o", "S", "t", "r", "i", "n", "g">>) THEN Thrown
    ELSE Ok(<<"[", "o", "b", "j", "e", "c", "t", " ", "O", "b", "j", "e", "c", "t", "]">>)

(***************************************************************************)
(* normalizeData (src/services/api.ts 79-157)                              *)
(***************************************************************************)
PackageSet == {"Main", "Universe", "Restricted", "Multiverse"}

\* the enum's string value
ComponentChars(c) ==
    IF c = "Main" THEN <<"M", "a", "i", "n">>
    ELSE IF c = "Universe" THEN <<"U", "n", "i", "v", "e", "r", "s", "e">>
    ELSE IF c = "Restricted" THEN <<"R", "e", "s", "t", "r", "i", "c", "t", "e", "d">>
    ELSE <<"M", "u", "l", "t", "i", "v", "e", "r", "s", "e">>

Unknown == <<"U", "n", "k", "n", "o", "w", "n">>
NotAvailable == <<"N", "/", "A">>
DefaultAge == <<"0", "d">>

NameKeys == << <<"s", "o", "u", "r", "c", "e", "_", "p", "a", "c", "k", "a", "g", "e">>, <<"s", "o", "u", "r", "c", "e">>, <<"p", "a", "c", "k", "a", "g", "e">>, <<"n", "a", "m", "e">>, <<"p", "k", "g">>, <<"s", "r", "c">> >>
UbuntuKeys == << <<"l", "e", "f", "t", "_", "v", "e", "r", "s", "i", "o", "n">>, <<"v", "e", "r", "s", "i", "o", "n", "_", "u", "b", "u", "n", "t", "u">>, <<"u", "b", "u", "n", "t", "u", "_", "v", "e", "r", "s", "i", "o", "n">>, <<"u", "b", "u", "n", "t", "u">>, <<"v", "e", "r", "s", "i", "o", "n">> >>
DebianKeys == << <<"r", "i", "g", "h", "t", "_", "v", "e", "r", "s", "i", "o", "n">>, <<"v", "e", "r", "s", "i", "o", "n", "_", "d", "e", "b", "i", "a", "n">>, <<"d", "e", "b", "i", "a", "n", "_", "v", "e", "r", "s", "i", "o", "n">>, <<"d", "e", "b", "i", "a", "n">>, <<"n", "e", "w", "_", "v", "e", "r", "s", "i", "o", "n">> >>
UploaderKeys == << <<"u", "p", "l", "o", "a", "d", "e", "r">>, <<"u", "s", "e", "r">>, <<"c", "h", "a", "n", "g", "e", "d", "_", "b", "y">> >>
TeamsKey == <<"t", "e", "a", "m", "s">>
AgeKey == <<"a", "g", "e">>

\* a view that keeps the keys as written
RECURSIVE LowerKeysFrom_AsWritten(_, _, _)
LowerKeysFrom_AsWritten(item, i, acc) ==
    IF i > Len(item.keys) THEN acc
    ELSE LowerKeysFrom_AsWritten(item, i + 1, Put(acc, item.keys[i], item.vals[i]))

\* lowerKeys: every key lower-cased, a later key overwriting an earlier one
RECURSIVE LowerKeysFrom(_, _, _)
LowerKeysFrom(item, i, acc) ==
    IF i > Len(item.keys) THEN acc
    ELSE LowerKeysFrom(item, i + 1, Put(acc, toLowerCase(item.keys[i]), item.vals[i]))

LowerKeys(item) == LowerKeysFrom(item, 1, Obj(<<>>, <<>>))

\* lowerKeys.k1 || lowerKeys.k2 || ... || dflt
RECURSIVE OrChain(_, _, _)
OrChain(lk, keys, dflt) ==
    IF keys = <<>> THEN dflt
    ELSE Or(Get(lk, Head(keys)), OrChain(lk, Tail(keys), dflt))

\* Object.keys(item).slice(0, 5).join(', ')
DiagnosticKeys == 5

\* a diagnostic that lists every key
DiagnosticName_AllKeys(item) ==
    <<"U", "n", "k", "n", "o", "w", "n", " ", "(", "K", "e", "y", "s", ":", " ">>
        \o JoinChars(item.keys, <<",", " ">>) \o <<")">>

DiagnosticName(item) ==
    <<"U", "n", "k", "n", "o", "w", "n", " ", "(", "K", "e", "y", "s", ":", " ">>
        \o JoinChars(SubSeq(item.keys, 1,
                            IF Len(item.keys) < DiagnosticKeys THEN Len(item.keys)
                            ELSE DiagnosticKeys), <<",", " ">>)
        \o <<")">>

\* a positional strategy that reads the uploader from position 3
PositionalFields_Uploader3(item) ==
    [name     |-> Or(At(item, 0), Str(Unknown)),
     ubuntu   |-> Or(At(item, 1), Str(NotAvailable)),
     debian   |-> Or(At(item, 2), Str(NotAvailable)),
     teams    |-> Arr(<<>>),
     age      |-> Ok(DefaultAge),
     uploader |-> Or(At(item, 3), Str(Unknown))]

\* Strategy 1: the entry is an array [name, ubuntu, debian, ...]
PositionalFields(item) ==
    [name     |-> Or(At(item, 0), Str(Unknown)),
     ubuntu   |-> Or(At(item, 1), Str(NotAvailable)),
     debian   |-> Or(At(item, 2), Str(NotAvailable)),
     teams    |-> Arr(<<>>),
     age      |-> Ok(DefaultAge),
     uploader |-> Str(Unknown)]

\* a teams extraction that wraps a value that is not an array
TeamsOf_Wrap(lowerKeys) ==
    IF ~Truthy(Get(lowerKeys, TeamsKey)) THEN Arr(<<>>)
    ELSE IF Get(lowerKeys, TeamsKey).t = "array" THEN Get(lowerKeys, TeamsKey)
    ELSE Arr(<<Get(lowerKeys, TeamsKey)>>)

\* if (lowerKeys.teams && Array.isArray(lowerKeys.teams)) teams = lowerKeys.teams
TeamsOf(lowerKeys) ==
    IF Truthy(Get(lowerKeys, TeamsKey)) /\ Get(lowerKeys, TeamsKey).t = "array"
    THEN Get(lowerKeys, TeamsKey) ELSE Arr(<<>>)

\* if (lowerKeys.age) age = String(lowerKeys.age)
AgeOf(lowerKeys) ==
    IF Truthy(Get(lowerKeys, AgeKey))
    THEN JSToString(Get(lowerKeys, AgeKey)) ELSE Ok(DefaultAge)

\* Strategy 2: the entry is an object, looked up by lower-cased key
KeyedFields(item) ==
    LET lowerKeys == LowerKeys(item)
        name      == OrChain(lowerKeys, NameKeys, Str(Unknown))
    IN [name     |-> IF name = Str(Unknown) THEN Str(DiagnosticName(item)) ELSE name,
        ubuntu   |-> OrChain(lowerKeys, UbuntuKeys, Str(NotAvailable)),
        debian   |-> OrChain(lowerKeys, DebianKeys, Str(NotAvailable)),
        teams    |-> TeamsOf(lowerKeys),
        age      |-> AgeOf(lowerKeys),
        uploader |-> OrChain(lowerKeys, UploaderKeys, Str(Unknown))]

\* neither strategy applies (the entry is a primitive): the initial values
DefaultFields ==
    [name     |-> Str(Unknown),
     ubuntu   |-> Str(NotAvailable),
     debian   |-> Str(NotAvailable),
     teams    |-> Arr(<<>>),
     age      |-> Ok(DefaultAge),
     uploader |-> Str(Unknown)]

\* the locals of the map callback after its two strategies
EntryFields(item) ==
    IF item.t = "array" THEN PositionalFields(item)
    ELSE IF item.t = "object" THEN KeyedFields(item)
    ELSE DefaultFields

\* an id that leaves the component out
RecordId_NoComponent(comp, nameChars, index) ==
    nameChars \o <<"-">> \o IntToChars(index)

\* `${component}-${name}-${index}`
RecordId(comp, nameChars, index) ==
    ComponentChars(comp) \o <<"-">> \o nameChars \o <<"-">> \o IntToChars(index)

\* the map callback: the record of one entry, or the TypeError a String()
\* conversion throws.  lastUpdated, the time of the call, is left out.
NormalizeEntry(item, index, comp) ==
    LET f      == EntryFields(item)
        name   == JSToString(f.name)
        ubuntu == JSToString(f.ubuntu)
        debian == JSToString(f.debian)
        upl    == JSToString(f.uploader)
    IN IF ~f.age.ok \/ ~name.ok \/ ~ubuntu.ok \/ ~debian.ok \/ ~upl.ok
       THEN [ok |-> FALSE]
       ELSE [ok |-> TRUE,
             rec |-> [id            |-> RecordId(comp, name.s, index),
                      name          |-> name.s,
                      ubuntuVersion |-> ubuntu.s,
                      debianVersion |-> debian.s,
                      component     |-> comp,
                      teams         |-> f.teams.items,
                      age           |-> f.age.s,
                      ageInDays     |-> parseAgeToDays(Str(f.age.s)),
                      uploader      |-> upl.s]]

\* a filter that lets undefined entries through
RECURSIVE FilterEntries_NullOnly(_)
FilterEntries_NullOnly(list) ==
    IF list = <<>> THEN <<>>
    ELSE IF Head(list).t = "null" THEN FilterEntries_NullOnly(Tail(list))
    ELSE <<Head(list)>> \o FilterEntries_NullOnly(Tail(list))

\* Array.prototype.filter(item => item !== null && item !== undefined)
RECURSIVE FilterEntries(_)
FilterEntries(list) ==
    IF list = <<>> THEN <<>>
    ELSE IF Head(list).t \in {"null", "undefined"} THEN FilterEntries(Tail(list))
    ELSE <<Head(list)>> \o FilterEntries(Tail(list))

Returned(recs) == [k |-> "returned", recs |-> recs]
Raised == [k |-> "raised"]

normalizeData(raw, comp) ==
    IF raw.t \notin {"object", "array"} THEN Returned(<<>>)
    ELSE LET list == IF raw.t = "object" THEN raw.vals ELSE raw.items
             kept == FilterEntries(list)
             out  == [i \in 1..Len(kept) |-> NormalizeEntry(kept[i], i - 1, comp)]
         IN IF \E i \in 1..Len(out) : ~out[i].ok THEN Raised
            ELSE Returned([i \in 1..Len(out) |-> out[i].rec])

(***************************************************************************)
(* fetchMergeData (src/services/api.ts 159-175), from the four decoded     *)
(* payloads on: each is normalized under its tag and the four lists are    *)
(* concatenated.                                                           *)
(***************************************************************************)
BatchOrder == <<"Main", "Universe", "Restricted", "Multiverse">>

RECURSIVE ConcatAll(_)
ConcatAll(lists) ==
    IF lists = <<>> THEN <<>> ELSE Head(lists) \o ConcatAll(Tail(lists))

\* the batches combined last tag first
CombineBatches_Reversed(data) ==
    LET n == Len(BatchOrder)
        norm == [i \in 1..n |-> normalizeData(data[BatchOrder[n + 1 - i]], BatchOrder[n + 1 - i])]
    IN IF \E i \in 1..n : norm[i] = Raised THEN Raised
       ELSE Returned(ConcatAll([i \in 1..n |-> norm[i].recs]))

CombineBatches(data) ==
    LET norm == [i \in 1..Len(BatchOrder) |-> normalizeData(data[BatchOrder[i]], BatchOrder[i])]
    IN IF \E i \in 1..Len(norm) : norm[i] = Raised THEN Raised
       ELSE Returned(ConcatAll([i \in 1..Len(norm) |-> norm[i].recs]))

(***************************************************************************)
(* extractChangelogEntry (src/services/api.ts 178-242)                     *)
(***************************************************************************)
\* fullText.split('\n')
RECURSIVE SplitLines(_)
SplitLines(text) ==
    IF \E i \in 1..Len(text) : text[i] = "\n"
    THEN LET i == CHOOSE i \in 1..Len(text) :
                      text[i] = "\n" /\ \A j \in 1..(i - 1) : text[j] # "\n"
         IN <<SubSeq(text, 1, i - 1)>> \o SplitLines(SubSeq(text, i + 1, Len(text)))
    ELSE <<text>>

\* lines.slice(from, to), zero-based, to exclusive
Slice(lines, from, to) == SubSeq(lines, from + 1, to)

\* what '.' does not match
IsLineTerminator(c) == c \in {"\n", "\r"}

\* the length of the longest prefix of s whose characters all satisfy / all
\* fail IsSpace
RECURSIVE RunLength(_, _)
RunLength(s, spaces) ==
    IF s # <<>> /\ (IsSpace(Head(s)) <=> spaces) THEN 1 + RunLength(Tail(s), spaces) ELSE 0

NoMatch == [matched |-> FALSE]

\* line.match(/^(\S+)\s+\((.+?)\)/): the greedy \S+ and \s+ take the whole
\* leading token and the whole white space after it, and the lazy (.+?) ends
\* at the first ')' that leaves it at least one character.
HeaderMatch(line) ==
    LET tok   == RunLength(line, FALSE)
        ws    == RunLength(SubSeq(line, tok + 1, Len(line)), TRUE)
        open  == tok + ws + 1
        ends  == {k \in (open + 2)..Len(line) : line[k] = ")"}
        close == CHOOSE k \in ends : \A j \in ends : k <= j
    IN IF tok = 0 \/ ws = 0 \/ open > Len(line) THEN NoMatch
       ELSE IF line[open] # "(" \/ ends = {} THEN NoMatch
       ELSE IF \E m \in (open + 1)..(close - 1) : IsLineTerminator(line[m]) THEN NoMatch
       ELSE [matched |-> TRUE, version |-> SubSeq(line, open + 1, close - 1)]

\* v.includes(':') ? v.split(':').pop() : v
CleanVersion(v) ==
    IF includes(v, <<":">>)
    THEN LET last == CHOOSE i \in 1..Len(v) :
                         v[i] = ":" /\ \A j \in (i + 1)..Len(v) : v[j] # ":"
         IN SubSeq(v, last + 1, Len(v))
    ELSE v

\* a comparison that takes two different epochs for two different versions
VersionMatches_SameEpoch(foundVersion, target) ==
    \/ foundVersion = target
    \/ /\ CleanVersion(foundVersion) = CleanVersion(target)
       /\ ~(includes(foundVersion, <<":">>) /\ includes(target, <<":">>))

\* a comparison that sees the epoch
VersionMatches_Exact(foundVersion, target) == foundVersion = target

\* foundVersion === targetVersion || cleanFound === cleanTarget
VersionMatches(foundVersion, target) ==
    foundVersion = target \/ CleanVersion(foundVersion) = CleanVersion(target)

NotFound == 0 - 1

\* the first loop, from line i on (zero-based): the start of the first header
\* that matches, and the next header after it
RECURSIVE ScanTarget(_, _, _, _)
ScanTarget(lines, i, startLine, target) ==
    IF i >= Len(lines) THEN [startLine |-> startLine, endLine |-> NotFound]
    ELSE LET match == HeaderMatch(lines[i + 1])
         IN IF ~match.matched THEN ScanTarget(lines, i + 1, startLine, target)
            ELSE IF startLine = NotFound
            THEN ScanTarget(lines, i + 1,
                            IF VersionMatches(match.version, target) THEN i ELSE NotFound,
                            target)
            ELSE [startLine |-> startLine, endLine |-> i]

\* a fallback scan that never looks for the second header
ScanFirst_NoSecond(lines, i, firstHeaderIndex) ==
    LET hs == {j \in i..(Len(lines) - 1) : HeaderMatch(lines[j + 1]).matched}
    IN [firstHeaderIndex  |-> IF firstHeaderIndex # NotFound THEN firstHeaderIndex
                              ELSE IF hs = {} THEN NotFound
                              ELSE CHOOSE j \in hs : \A m \in hs : j <= m,
        secondHeaderIndex |-> NotFound]

\* the second loop: the first header and the second header
RECURSIVE ScanFirst(_, _, _)
ScanFirst(lines, i, firstHeaderIndex) ==
    IF i >= Len(lines)
    THEN [firstHeaderIndex |-> firstHeaderIndex, secondHeaderIndex |-> NotFound]
    ELSE IF ~HeaderMatch(lines[i + 1]).matched THEN ScanFirst(lines, i + 1, firstHeaderIndex)
    ELSE IF firstHeaderIndex = NotFound THEN ScanFirst(lines, i + 1, i)
    ELSE [firstHeaderIndex |-> firstHeaderIndex, secondHeaderIndex |-> i]

\* a block whose lines are joined by spaces
TrimmedBlock_SpaceJoined(lines, from, to) == trim(JoinChars(Slice(lines, from, to), <<" ">>))

\* lines.slice(from, to).join('\n').trim()
TrimmedBlock(lines, from, to) == trim(JoinChars(Slice(lines, from, to), <<"\n">>))

\* a block that always runs to the end of the text
BlockEnd_ToEnd(lines, endLine) == Len(lines)

\* where the block that starts at startLine ends
BlockEnd(lines, endLine) == IF endLine = NotFound THEN Len(lines) ELSE endLine

\* what comes back when no header was found
Unstructured_Trimmed(text) == trim(text)

Unstructured(text) == text

extractChangelogEntry(text, target) ==
    LET lines == SplitLines(text)
        scan  == ScanTarget(lines, 0, NotFound, target)
        first == ScanFirst(lines, 0, NotFound)
    IN IF scan.startLine # NotFound
       THEN TrimmedBlock(lines, scan.startLine, BlockEnd(lines, scan.endLine))
       ELSE IF first.firstHeaderIndex # NotFound
       THEN TrimmedBlock(lines, first.firstHeaderIndex,
                         BlockEnd(lines, first.secondHeaderIndex))
       ELSE Unstructured(text)

(***************************************************************************)
(* isValidChangelog (src/services/api.ts 245-248)                          *)
(***************************************************************************)
MinLength == 50
DoctypePrefix == <<"<", "!", "d", "o", "c", "t", "y", "p", "e">>
HtmlPrefix == <<"<", "h", "t", "m", "l">>

\* a validator that accepts a text of exactly the minimum length
isValidChangelog_AtLeast(text) ==
    LET trimmed == toLowerCase(trim(text))
    IN ~startsWith(trimmed, DoctypePrefix) /\ ~startsWith(trimmed, HtmlPrefix)
           /\ Len(trimmed) >= MinLength

isValidChangelog(text) ==
    LET trimmed == toLowerCase(trim(text))
    IN ~startsWith(trimmed, DoctypePrefix) /\ ~startsWith(trimmed, HtmlPrefix)
           /\ Len(trimmed) > MinLength

\* a call that has not settled
NoResult == [k |-> "none"]

(***************************************************************************)
(* fetchDataWithFallback, fetchTextWithFallback (src/services/api.ts       *)
(* 11-59).  A call is a job: its target, which of the two functions it is  *)
(* ("json" or "text"), what each proxy will answer (net), the next proxy   *)
(* of the for loop, the attempts made, lastError and how the call settled. *)
(***************************************************************************)
PROXIES == <<"corsproxy.io", "api.allorigins.win", "api.codetabs.com">>

Err(msg) == [t |-> "error", msg |-> msg]

\* what one proxy answers: fetch rejects with e, the response is not ok, the
\* body cannot be read or parsed, or the body arrives
Rejects(e) == [k |-> "rejects", e |-> e]
NotOk(status) == [k |-> "status", status |-> status]
BadBody(e) == [k |-> "badbody", e |-> e]
Body(b) == [k |-> "ok", body |-> b]

Resolved(v) == [k |-> "resolved", value |-> v]
Rejected(e) == [k |-> "rejected", error |-> e]

NewJob(kind, target, net) ==
    [kind |-> kind, target |-> target, net |-> net, next |-> 1, log |-> <<>>,
     lastError |-> Undefined, out |-> NoResult]

\* new Error(`Proxy response status: ${res.status}`)
StatusError(status) == Err(<<"P", "r", "o", "x", "y", " ", "r", "e", "s", "p", "o", "n", "s", "e", " ", "s", "t", "a", "t", "u", "s", ":", " ">> \o NatToChars(status))

\* the error of the final throw when lastError is falsy
GenericError(kind, target) ==
    IF kind = "json"
    THEN Err(<<"U", "n", "a", "b", "l", "e", " ", "t", "o", " ", "f", "e", "t", "c", "h", " ", "a", "n", "d", " ", "p", "a", "r", "s", "e", " ">> \o target \o <<" ", "f", "r", "o", "m", " ", "a", "n", "y", " ", "p", "r", "o", "x", "y", ".">>)
    ELSE Err(<<"U", "n", "a", "b", "l", "e", " ", "t", "o", " ", "f", "e", "t", "c", "h", " ", "t", "e", "x", "t", " ", "f", "r", "o", "m", " ">> \o target)

\* what the catch block is handed by the answer of a proxy that failed
Caught(answer) ==
    IF answer.k = "status" THEN StatusError(answer.status) ELSE answer.e

\* a final throw of the first error caught
FinalError_First(job) ==
    IF job.log = <<>> THEN GenericError(job.kind, job.target)
    ELSE Or(Caught(job.log[1].answer), GenericError(job.kind, job.target))

\* throw lastError || new Error(...)
FinalError(job) == Or(job.lastError, GenericError(job.kind, job.target))

\* a loop that goes on to the next proxy after a body arrived
AfterBody_KeepGoing(job, b) ==
    [job EXCEPT !.log = Append(@, [proxy |-> job.next, answer |-> job.net[job.next]]),
                !.next = @ + 1]

\* return await res.json() / res.text()
AfterBody(job, b) ==
    [job EXCEPT !.log = Append(@, [proxy |-> job.next, answer |-> job.net[job.next]]),
                !.out = Resolved(b)]

\* catch (e) { lastError = e; } and on to the next proxy
AfterFailure(job) ==
    [job EXCEPT !.log = Append(@, [proxy |-> job.next, answer |-> job.net[job.next]]),
                !.lastError = Caught(job.net[job.next]),
                !.next = @ + 1]

\* the loop is over: throw lastError || new Error(...)
AfterExhausted(job) == [job EXCEPT !.out = Rejected(FinalError(job))]

\* one iteration of the for loop is due
Attempting(job) == job.out = NoResult /\ job.next <= Len(PROXIES)

(***************************************************************************)
(* fetchMergeData with its four concurrent fetches (src/services/api.ts    *)
(* 4-7, 159-175)                                                           *)
(***************************************************************************)
BatchUrl(tag) ==
    CASE tag = "Main" -> <<"h", "t", "t", "p", "s", ":", "/", "/", "m", "e", "r", "g", "e", "s", ".", "u", "b", "u", "n", "t", "u", ".", "c", "o", "m", "/", "m", "a", "i", "n", ".", "j", "s", "o", "n">>
      [] tag = "Universe" -> <<"h", "t", "t", "p", "s", ":", "/", "/", "m", "e", "r", "g", "e", "s", ".", "u", "b", "u", "n", "t", "u", ".", "c", "o", "m", "/", "u", "n", "i", "v", "e", "r", "s", "e", ".", "j", "s", "o", "n">>
      [] tag = "Restricted" -> <<"h", "t", "t", "p", "s", ":", "/", "/", "m", "e", "r", "g", "e", "s", ".", "u", "b", "u", "n", "t", "u", ".", "c", "o", "m", "/", "r", "e", "s", "t", "r", "i", "c", "t", "e", "d", ".", "j", "s", "o", "n">>
      [] tag = "Multiverse" -> <<"h", "t", "t", "p", "s", ":", "/", "/", "m", "e", "r", "g", "e", "s", ".", "u", "b", "u", "n", "t", "u", ".", "c", "o", "m", "/", "m", "u", "l", "t", "i", "v", "e", "r", "s", "e", ".", "j", "s", "o", "n">>

\* Promise.all: pending until every input is fulfilled or one is rejected
Pending(order) == [state |-> "pending", order |-> order]
Fulfilled(order) == [state |-> "fulfilled", order |-> order]
Failed(order) == [state |-> "rejected", order |-> order]

AllFulfilled(jobs) == \A j \in DOMAIN jobs : jobs[j].out.k = "resolved"

\* the Promise.all after job j was rejected: the first rejection rejects it
GatherAfterRejection(g, jobs, j) ==
    IF g.state = "pending" THEN Failed(Append(g.order, j))
    ELSE [g EXCEPT !.order = Append(@, j)]

\* the Promise.all after job j was fulfilled
GatherAfterBody(g, jobs, j) ==
    IF g.state = "pending" /\ AllFulfilled(jobs) THEN Fulfilled(Append(g.order, j))
    ELSE [g EXCEPT !.order = Append(@, j)]

\* [mainData, universeData, restrictedData, multiverseData]
GatheredData(jobs) == [j \in DOMAIN jobs |-> jobs[j].out.value]

\* how fetchMergeData settles once the Promise.all has: the rejection goes
\* through the await, the bodies are normalized and combined
MergeOutcome(g, jobs, was) ==
    IF was # NoResult THEN was
    ELSE IF g.state = "rejected"
    THEN Rejected(jobs[g.order[Len(g.order)]].out.error)
    ELSE IF g.state = "fulfilled" THEN CombineBatches(GatheredData(jobs))
    ELSE NoResult

(***************************************************************************)
(* fetchChangelog (src/services/api.ts 250-283)                            *)
(***************************************************************************)
\* name.startsWith('lib') ? name.substring(0, 4) : name.substring(0, 1)
PoolPrefix(name) ==
    IF startsWith(name, <<"l", "i", "b">>) THEN SubSeq(name, 1, IF Len(name) < 4 THEN Len(name) ELSE 4)
    ELSE SubSeq(name, 1, IF Len(name) < 1 THEN Len(name) ELSE 1)

\* `https://changelogs.ubuntu.com/changelogs/pool/${component}/${prefix}/${name}`
PoolBase(pkg) ==
    <<"h", "t", "t", "p", "s", ":", "/", "/", "c", "h", "a", "n", "g", "e", "l", "o", "g", "s", ".", "u", "b", "u", "n", "t", "u", ".", "c", "o", "m", "/", "c", "h", "a", "n", "g", "e", "l", "o", "g", "s", "/", "p", "o", "o", "l", "/">>
        \o toLowerCase(ComponentChars(pkg.component)) \o <<"/">> \o PoolPrefix(pkg.name)
        \o <<"/">> \o pkg.name

\* `${poolBase}/${name}_${candVersion}/changelog`
ChangelogUrl(pkg, candVersion) ==
    PoolBase(pkg) \o <<"/">> \o pkg.name \o <<"_">> \o candVersion \o <<"/", "c", "h", "a", "n", "g", "e", "l", "o", "g">>

\* version.replace(/:/g, '%3a')
RECURSIVE ReplaceColons(_)
ReplaceColons(v) ==
    IF v = <<>> THEN <<>>
    ELSE (IF Head(v) = ":" THEN <<"%", "3", "a">> ELSE <<Head(v)>>) \o ReplaceColons(Tail(v))

\* .filter(Boolean)
RECURSIVE FilterBoolean(_)
FilterBoolean(vals) ==
    IF vals = <<>> THEN <<>>
    ELSE (IF Truthy(Head(vals)) THEN <<Head(vals)>> ELSE <<>>) \o FilterBoolean(Tail(vals))

\* Array.from(new Set(candidates)): the first occurrence of each
RECURSIVE Unique(_)
Unique(vals) ==
    IF vals = <<>> THEN <<>>
    ELSE LET rest == Unique(SubSeq(vals, 1, Len(vals) - 1))
             last == vals[Len(vals)]
         IN IF \E i \in 1..Len(rest) : rest[i] = last THEN rest ELSE Append(rest, last)

\* a candidate list without the percent-encoded version
Candidates_NoEncoded(version) ==
    Unique(FilterBoolean(<< Str(version),
                            IF includes(version, <<":">>) THEN Str(CleanVersion(version))
                            ELSE Undefined >>))

\* uniqueCandidates
Candidates(version) ==
    Unique(FilterBoolean(<< Str(version),
                            Str(ReplaceColons(version)),
                            IF includes(version, <<":">>) THEN Str(CleanVersion(version))
                            ELSE Undefined >>))

NotFoundError == Err(<<"C", "h", "a", "n", "g", "e", "l", "o", "g", " ", "n", "o", "t", " ", "f", "o", "u", "n", "d", " ", "a", "f", "t", "e", "r", " ", "t", "r", "y", "i", "n", "g", " ", "m", "u", "l", "t", "i", "p", "l", "e", " ", "U", "R", "L", " ", "v", "a", "r", "i", "a", "t", "i", "o", "n", "s">>)

\* a loop that accepts any body that was served
Accepts_Any(text) == TRUE

\* if (isValidChangelog(text))
Accepts(text) == isValidChangelog(text)

\* the call on entry: the candidates are computed, none is fetched yet
NewChangelogCall(pkg, nets) ==
    [pkg |-> pkg, candidates |-> Candidates(pkg.ubuntuVersion), nets |-> nets,
     index |-> 0, extracted |-> <<>>, out |-> NoResult]

\* the job of the candidate at position i
CandidateJob(c, i) ==
    NewJob("text", ChangelogUrl(c.pkg, c.candidates[i].s), c.nets[i])

\* the for loop moves to its next candidate, and past the last the call
\* throws
NextCandidate(c) ==
    IF c.index < Len(c.candidates) THEN [c EXCEPT !.index = @ + 1]
    ELSE [c EXCEPT !.out = Rejected(NotFoundError)]

\* the call after the fetch of its current candidate settled as job.out:
\* a body that is accepted is extracted and returned; otherwise the loop
\* goes on
ChangelogAfter(c, job) ==
    IF job.out.k = "resolved" /\ Accepts(job.out.value.s)
    THEN [c EXCEPT !.extracted = Append(@, job.out.value.s),
                   !.out = Resolved(Str(extractChangelogEntry(job.out.value.s,
                                                              c.pkg.ubuntuVersion)))]
    ELSE NextCandidate(c)

\* the jobs after the call moved: the fetch of the next candidate is issued
JobsAfter(jobs, c2) ==
    IF c2.out = NoResult /\ c2.index \notin DOMAIN jobs
    THEN [i \in 1..c2.index |-> IF i \in DOMAIN jobs THEN jobs[i] ELSE CandidateJob(c2, i)]
    ELSE jobs

(***************************************************************************)
(* fetchDebianChangelog (src/services/api.ts 285-323)                      *)
(***************************************************************************)
\* const components = ['main', 'contrib', 'non-free']
DebianComponents == << <<"m", "a", "i", "n">>, <<"c", "o", "n", "t", "r", "i", "b">>, <<"n", "o", "n", "-", "f", "r", "e", "e">> >>

\* https://metadata.ftp-master.debian.org/changelogs/${comp}/${prefix}/${name}/${name}_${cleanVersion}_changelog
FtpMasterUrl(pkg, comp) ==
    <<"h", "t", "t", "p", "s", ":", "/", "/", "m", "e", "t", "a", "d", "a", "t", "a", ".", "f", "t", "p", "-", "m", "a", "s", "t", "e", "r", ".", "d", "e", "b", "i", "a", "n", ".", "o", "r", "g", "/", "c", "h", "a", "n", "g", "e", "l", "o", "g", "s", "/">> \o comp \o <<"/">>
        \o PoolPrefix(pkg.name) \o <<"/">> \o pkg.name \o <<"/">> \o pkg.name \o <<"_">>
        \o CleanVersion(pkg.debianVersion) \o <<"_", "c", "h", "a", "n", "g", "e", "l", "o", "g">>

\* https://tracker.debian.org/media/packages/${prefix}/${name}/changelog-${cleanVersion}
TrackerUrl(pkg) ==
    <<"h", "t", "t", "p", "s", ":", "/", "/", "t", "r", "a", "c", "k", "e", "r", ".", "d", "e", "b", "i", "a", "n", ".", "o", "r", "g", "/", "m", "e", "d", "i", "a", "/", "p", "a", "c", "k", "a", "g", "e", "s", "/">> \o PoolPrefix(pkg.name) \o <<"/">>
        \o pkg.name \o <<"/", "c", "h", "a", "n", "g", "e", "l", "o", "g", "-">> \o CleanVersion(pkg.debianVersion)

\* sources that begin with the tracker
DebianSources_TrackerFirst(pkg) ==
    <<TrackerUrl(pkg)>> \o [i \in 1..Len(DebianComponents) |-> FtpMasterUrl(pkg, DebianComponents[i])]

\* the URLs in the order the function goes through them: the for loop over
\* the components, then the tracker
DebianSources(pkg) ==
    [i \in 1..Len(DebianComponents) |-> FtpMasterUrl(pkg, DebianComponents[i])]
        \o <<TrackerUrl(pkg)>>

DebianNotFoundError == Err(<<"D", "e", "b", "i", "a", "n", " ", "c", "h", "a", "n", "g", "e", "l", "o", "g", " ", "n", "o", "t", " ", "f", "o", "u", "n", "d">>)

\* the call on entry: nothing is fetched yet
NewDebianCall(pkg, nets) ==
    [pkg |-> pkg, sources |-> DebianSources(pkg), nets |-> nets,
     index |-> 0, extracted |-> <<>>, out |-> NoResult]

\* the function moves to its next source, and past the tracker it throws
NextSource(c) ==
    IF c.index < Len(c.sources) THEN [c EXCEPT !.index = @ + 1]
    ELSE [c EXCEPT !.out = Rejected(DebianNotFoundError)]

\* the call after the fetch of its current source settled as job.out
DebianAfter(c, job) ==
    IF job.out.k = "resolved" /\ isValidChangelog(job.out.value.s)
    THEN [c EXCEPT !.extracted = Append(@, job.out.value.s),
                   !.out = Resolved(Str(extractChangelogEntry(job.out.value.s,
                                                              c.pkg.debianVersion)))]
    ELSE NextSource(c)

\* the jobs after the call moved: the fetch of the next source is issued
DebianJobsAfter(jobs, c2) ==
    IF c2.out = NoResult /\ c2.index \notin DOMAIN jobs
    THEN [i \in 1..c2.index |->
             IF i \in DOMAIN jobs THEN jobs[i]
             ELSE NewJob("text", c2.sources[i], c2.nets[i])]
    ELSE jobs

(***************************************************************************)
(* PackageList (src/components/PackageList.tsx): the state of the          *)
(* component, what it derives from it at each render, and its handlers.    *)
(***************************************************************************)
ITEMS_PER_PAGE == 25

AllOption == <<"A", "l", "l">>
AgeLabels == <<"< 1 Week", "1-4 Weeks", "1-6 Months", "> 6 Months">>
SortFields == {"name", "ageInDays", "ubuntuVersion", "debianVersion", "uploader"}

\* useState(...): the state of a list mounted over data
NewList(data, initialFilterTeam) ==
    [data            |-> data,
     searchTerm      |-> <<>>,
     filterComponent |-> "All",
     filterTeam      |-> IF initialFilterTeam = <<>> THEN AllOption ELSE initialFilterTeam,
     filterAge       |-> "All",
     filterUploader  |-> AllOption,
     currentPage     |-> 1,
     sortField       |-> "ageInDays",
     sortAsc         |-> FALSE]

\* fullString.split('<')[0].trim(), 'Unknown' for an empty or unknown uploader
getUploaderName(fullString) ==
    IF fullString = <<>> \/ fullString = Unknown THEN Unknown
    ELSE IF \E i \in 1..Len(fullString) : fullString[i] = "<"
    THEN trim(SubSeq(fullString, 1,
                     (CHOOSE i \in 1..Len(fullString) :
                          fullString[i] = "<" /\ \A j \in 1..(i - 1) : fullString[j] # "<") - 1))
    ELSE trim(fullString)

\* an age filter whose first class takes the seventh day in
MatchesAge_WeekInclusive(filterAge, ageInDays) ==
    CASE filterAge = "All" -> TRUE
      [] filterAge = "< 1 Week" -> ageInDays <= 7
      [] filterAge = "1-4 Weeks" -> ageInDays > 7 /\ ageInDays <= 30
      [] filterAge = "1-6 Months" -> ageInDays > 30 /\ ageInDays <= 180
      [] filterAge = "> 6 Months" -> ageInDays > 180
      [] OTHER -> TRUE

\* let matchesAge = true; if (filterAge !== 'All') ...
MatchesAge(filterAge, ageInDays) ==
    CASE filterAge = "All" -> TRUE
      [] filterAge = "< 1 Week" -> ageInDays < 7
      [] filterAge = "1-4 Weeks" -> ageInDays >= 7 /\ ageInDays <= 30
      [] filterAge = "1-6 Months" -> ageInDays > 30 /\ ageInDays <= 180
      [] filterAge = "> 6 Months" -> ageInDays > 180
      [] OTHER -> TRUE

\* the callback of data.filter
Matches(l, pkg) ==
    /\ includes(toLowerCase(pkg.name), toLowerCase(l.searchTerm))
    /\ l.filterComponent = "All" \/ pkg.component = l.filterComponent
    /\ l.filterTeam = AllOption \/ \E i \in 1..Len(pkg.teams) : pkg.teams[i] = l.filterTeam
    /\ MatchesAge(l.filterAge, pkg.ageInDays)
    /\ l.filterUploader = AllOption \/ getUploaderName(pkg.uploader) = l.filterUploader

filteredData(l) == SelectSeq(l.data, LAMBDA pkg : Matches(l, pkg))

\* Math.ceil(sortedData.length / ITEMS_PER_PAGE); the sort keeps the length
totalPages(l) == (Len(filteredData(l)) + ITEMS_PER_PAGE - 1) \div ITEMS_PER_PAGE

\* the options of the team and uploader selects
uniqueTeams(data) ==
    UNION {{data[i].teams[j] : j \in 1..Len(data[i].teams)} : i \in 1..Len(data)}
uniqueUploaders(data) ==
    {getUploaderName(data[i].uploader) :
         i \in {k \in 1..Len(data) : data[k].uploader # <<>> /\ data[k].uploader # Unknown}}

\* handleSearchChange
SearchChanged(l, value) == [l EXCEPT !.searchTerm = value, !.currentPage = 1]

\* the onChange of the four selects
ComponentChanged(l, value) == [l EXCEPT !.filterComponent = value, !.currentPage = 1]
TeamChanged(l, value) == [l EXCEPT !.filterTeam = value, !.currentPage = 1]
UploaderChanged(l, value) == [l EXCEPT !.filterUploader = value, !.currentPage = 1]

\* an age select that leaves the page where it is
AgeChanged_KeepPage(l, value) == [l EXCEPT !.filterAge = value]

AgeChanged(l, value) == [l EXCEPT !.filterAge = value, !.currentPage = 1]

\* toggleSort
SortToggled(l, field) ==
    IF l.sortField = field THEN [l EXCEPT !.sortAsc = ~l.sortAsc]
    ELSE [l EXCEPT !.sortField = field, !.sortAsc = TRUE]

\* the pagination bar is rendered when totalPages > 1; Previous is disabled
\* on the first page and Next on the last
PreviousEnabled(l) == totalPages(l) > 1 /\ l.currentPage # 1
NextEnabled(l) == totalPages(l) > 1 /\ l.currentPage # totalPages(l)

\* setCurrentPage(p => Math.max(1, p - 1))
PreviousClicked(l) ==
    [l EXCEPT !.currentPage = IF l.currentPage - 1 < 1 THEN 1 ELSE l.currentPage - 1]

\* setCurrentPage(p => Math.min(totalPages, p + 1))
NextClicked(l) ==
    [l EXCEPT !.currentPage = IF l.currentPage + 1 > totalPages(l) THEN totalPages(l)
                              ELSE l.currentPage + 1]

(***************************************************************************)
(* Dashboard (src/components/Dashboard.tsx): the statistics it derives     *)
(* from its data.                                                          *)
(***************************************************************************)
\* the bin of the forEach callback's if / else-if chain
AgeBinOf(ageInDays) ==
    IF ageInDays <= 7 THEN "week1"
    ELSE IF ageInDays <= 30 THEN "month1"
    ELSE IF ageInDays <= 180 THEN "month6"
    ELSE "older"

CountWhere(data, Test(_)) == Cardinality({i \in 1..Len(data) : Test(data[i])})

RECURSIVE SumDays(_)
SumDays(data) == IF data = <<>> THEN 0 ELSE Head(data).ageInDays + SumDays(Tail(data))

\* the object the useMemo callback returns
Stats(data) ==
    [total           |-> Len(data),
     mainCount       |-> CountWhere(data, LAMBDA p : p.component = "Main"),
     universeCount   |-> CountWhere(data, LAMBDA p : p.component = "Universe"),
     restrictedCount |-> CountWhere(data, LAMBDA p : p.component = "Restricted"),
     multiverseCount |-> CountWhere(data, LAMBDA p : p.component = "Multiverse"),
     totalDays       |-> SumDays(data),
     teams           |-> [t \in uniqueTeams(data) |->
                             CountWhere(data, LAMBDA p : \E j \in 1..Len(p.teams) : p.teams[j] = t)],
     ageBins         |-> [b \in {"week1", "month1", "month6", "older"} |->
                             CountWhere(data, LAMBDA p : AgeBinOf(p.ageInDays) = b)]]

\* ageChartData: the bins under the labels of the chart
ageChartData(stats) ==
    << [name |-> "< 1 Week", count |-> stats.ageBins["week1"]],
       [name |-> "1-4 Weeks", count |-> stats.ageBins["month1"]],
       [name |-> "1-6 Months", count |-> stats.ageBins["month6"]],
       [name |-> "> 6 Months", count |-> stats.ageBins["older"]] >>

(***************************************************************************)
(* ComparisonModal (src/unnamed/part_001 101-248): its props, its five     *)
(* pieces of state, and the runs of its effect, each with the two          *)
(* promises it started.  PackageDetail keeps the component mounted while   *)
(* a package is selected, so the state outlives a closing of the modal.    *)
(***************************************************************************)
\* the component as mounted for pkg (Null: no package, nothing is mounted)
NewComparison(pkg) ==
    [pkg |-> pkg, isOpen |-> FALSE, ubuntuLog |-> Null, debianLog |-> Null,
     loading |-> FALSE, ubuntuError |-> FALSE, debianError |-> FALSE, runs |-> <<>>]

\* the body of the effect: the state is cleared and both fetches start
ComparisonRun(m) ==
    [m EXCEPT !.loading = TRUE, !.ubuntuError = FALSE, !.debianError = FALSE,
              !.ubuntuLog = Null, !.debianLog = Null,
              !.runs = Append(@, [pkg |-> m.pkg, p1 |-> NoResult, p2 |-> NoResult])]

\* the effect, run after a render in which isOpen or pkg changed
ComparisonEffect(m) == IF m.isOpen /\ m.pkg # Null THEN ComparisonRun(m) ELSE m

\* Promise.allSettled([p1, p2]) is settled
AllSettled(run) == run.p1 # NoResult /\ run.p2 # NoResult

\* the continuation of Promise.allSettled, once both promises of run r settled
ComparisonJoined(m, r) == IF AllSettled(m.runs[r]) THEN [m EXCEPT !.loading = FALSE] ELSE m

\* fetchChangelog(pkg) of run r settled as out: .then(setUbuntuLog) or .catch
UbuntuSettled(m, r, out) ==
    ComparisonJoined(IF out.k = "resolved"
                     THEN [m EXCEPT !.ubuntuLog = out.value, !.runs[r].p1 = out]
                     ELSE [m EXCEPT !.ubuntuError = TRUE, !.runs[r].p1 = out], r)

\* fetchDebianChangelog(pkg) of run r settled as out: .then(setDebianLog) or .catch
DebianSettled(m, r, out) ==
    ComparisonJoined(IF out.k = "resolved"
                     THEN [m EXCEPT !.debianLog = out.value, !.runs[r].p2 = out]
                     ELSE [m EXCEPT !.debianError = TRUE, !.runs[r].p2 = out], r)

\* renderPanel: the badge of the header and what the body of the panel shows
Spinner == [t |-> "spinner"]
NotFoundNote == [t |-> "not found"]
renderPanel(m, log, isError) ==
    [unavailable |-> isError,
     body |-> IF m.loading THEN Spinner ELSE IF isError THEN NotFoundNote ELSE log]
UbuntuPanel(m) == renderPanel(m, m.ubuntuLog, m.ubuntuError)
DebianPanel(m) == renderPanel(m, m.debianLog, m.debianError)

(***************************************************************************)
(* ChangelogModal (src/unnamed/part_005) under PackageDetail               *)
(* (src/components/PackageDetail.tsx 13-20, 208-214): changelogVariant of  *)
(* the parent, from which the props isOpen and variant derive, the three   *)
(* pieces of state of the modal, and the runs of its effect.               *)
(***************************************************************************)
\* the component as mounted for pkg (Null: no package, nothing is mounted)
NewChangelogModal(pkg) ==
    [pkg |-> pkg, changelogVariant |-> Null, changelog |-> Null,
     loading |-> FALSE, error |-> FALSE, runs |-> <<>>]

\* isOpen={!!changelogVariant} and variant={changelogVariant || 'ubuntu'}
ModalIsOpen(m) == m.changelogVariant # Null
UbuntuVariant == Str(<<"u", "b", "u", "n", "t", "u">>)
DebianVariant == Str(<<"d", "e", "b", "i", "a", "n">>)
ModalVariant(m) == IF m.changelogVariant = Null THEN UbuntuVariant ELSE m.changelogVariant

\* the body of the effect: the state is cleared and the fetcher of the
\* variant is called
ChangelogRun(m) ==
    [m EXCEPT !.loading = TRUE, !.error = FALSE, !.changelog = Null,
              !.runs = Append(@, [pkg |-> m.pkg, variant |-> ModalVariant(m), out |-> NoResult])]

\* the effect, run after a render in which isOpen, pkg or variant changed
ChangelogEffect(m) == IF ModalIsOpen(m) /\ m.pkg # Null THEN ChangelogRun(m) ELSE m

\* the fetcher of run r settled as out: the .then or the .catch handler
FetcherSettled(m, r, out) ==
    IF out.k = "resolved"
    THEN [m EXCEPT !.changelog = out.value, !.loading = FALSE, !.runs[r].out = out]
    ELSE [m EXCEPT !.error = TRUE, !.loading = FALSE, !.runs[r].out = out]

(***************************************************************************)
(* App (src/unnamed/part_003): the data, loading and error state, the      *)
(* attempts of loadData with what their fetchMergeData settled as, and     *)
(* what the content area renders.                                          *)
(***************************************************************************)
\* useState([]), useState(true), useState(null): the App before its effect
NewApp == [data |-> <<>>, loading |-> TRUE, error |-> Null, attempts |-> <<>>]

ConnectionError == Str(<<"U", "n", "a", "b", "l", "e", " ", "t", "o", " ", "c", "o", "n", "n", "e", "c", "t", " ", "t", "o", " ", "U", "b", "u", "n", "t", "u", " ", "m", "e", "r", "g", "e", " ", "d", "a", "t", "a", " ", "s", "o", "u", "r", "c", "e", "s", ".", " ", "P", "l", "e", "a", "s", "e", " ", "c", "h", "e", "c", "k", " ", "y", "o", "u", "r", " ", "i", "n", "t", "e", "r", "n", "e", "t", " ", "c", "o", "n", "n", "e", "c", "t", "i", "o", "n", " ", "o", "r", " ", "t", "r", "y", " ", "a", "g", "a", "i", "n", ".">>)

\* loadData up to its await: loading is set, the error cleared and
\* fetchMergeData called
LoadDataStarted(a) ==
    [a EXCEPT !.loading = TRUE, !.error = Null,
              !.attempts = Append(@, [out |-> NoResult, resumed |-> FALSE])]

\* loadData without its finally block
LoadDataResumed_NoFinally(a, i) ==
    IF a.attempts[i].out.k = "resolved"
    THEN [a EXCEPT !.data = a.attempts[i].out.value, !.loading = FALSE, !.attempts[i].resumed = TRUE]
    ELSE [a EXCEPT !.error = ConnectionError, !.attempts[i].resumed = TRUE]

\* loadData after its await: try or catch, then finally
LoadDataResumed(a, i) ==
    IF a.attempts[i].out.k = "resolved"
    THEN [a EXCEPT !.data = a.attempts[i].out.value, !.loading = FALSE, !.attempts[i].resumed = TRUE]
    ELSE [a EXCEPT !.error = ConnectionError, !.loading = FALSE, !.attempts[i].resumed = TRUE]

\* the content area: the spinner, the error with its retry button, or the data
AppView(a) ==
    IF a.loading THEN [t |-> "loading"]
    ELSE IF a.error # Null /\ a.error.s # <<>> THEN [t |-> "error", message |-> a.error, retry |-> TRUE]
    ELSE [t |-> "content", data |-> a.data]

(***************************************************************************)
(* Inputs.                                                                 *)
(***************************************************************************)
\* the arguments of parseAgeToDays
AgeChars == {"0", "5", "7", ".", "-", "d", "w", "m", "o", "y", ":", " ", "D", "x"}

\* the strings the repository's own tests feed the parser (tests/api.test.ts
\* 18-137), and a fractional year
TestAgeStrings ==
    { <<"5", "d">>, <<"3", "6", "5", "d">>, <<"2", ".", "5", "d">>,
      <<"4", "w">>, <<"1", ".", "5", "w">>, <<"1", "2", "m", "o">>,
      <<"2", "y">>, <<"0", ".", "5", "y">>, <<"0", ".", "7", "y">>,
      <<"1", "2", ":", "3", "0">>, <<"0", "0", ":", "0", "5">>, <<"1", "0">>,
      <<"i", "n", "v", "a", "l", "i", "d">>, <<"5", "D">>, <<" ", "5", "d", " ">> }

\* all tuples of at most n elements of S
RECURSIVE SeqsUpTo(_, _)
SeqsUpTo(S, n) == IF n = 0 THEN { <<>> } ELSE SeqsUpTo(S, n - 1) \cup [1..n -> S]

AgeStrings == SeqsUpTo(AgeChars, MaxAgeLen) \cup TestAgeStrings

AgeInputs ==
    {Undefined, Null}
        \cup {Str(s) : s \in AgeStrings}
        \cup {Num(n) : n \in (0 - MaxAgeNum)..MaxAgeNum}

\* all tuples of n distinct elements of S
DistinctSeqs(S, n) == {q \in [1..n -> S] : \A i, j \in 1..n : i # j => q[i] # q[j]}

\* the keyed entries with at most n of the given keys, in every order
RECURSIVE KeyedUpTo(_, _, _)
KeyedUpTo(keys, vals, n) ==
    IF n = 0 THEN {Obj(<<>>, <<>>)}
    ELSE KeyedUpTo(keys, vals, n - 1)
             \cup {Obj(ks, vs) : ks \in DistinctSeqs(keys, n), vs \in [1..n -> vals]}

KeyedEntries(keys, vals) == KeyedUpTo(keys, vals, MaxKeys)

PkgA == Str(<<"p", "k", "g">>)
PkgB == Str(<<"l", "i", "b">>)
Unstringable == Obj(<< <<"t", "o", "S", "t", "r", "i", "n", "g">> >>, <<Num(1)>>)

FalsyVals == {Str(<<>>), Num(0), Null, Bool(FALSE)}

NameFamily ==
    KeyedEntries({NameKeys[i] : i \in 1..Len(NameKeys)} \cup { <<"S", "O", "U", "R", "C", "E">>, <<"s", "t", "a", "t", "u", "s">> },
                 FalsyVals \cup {PkgA, PkgB, Str(Unknown)})
UbuntuFamily ==
    KeyedEntries({UbuntuKeys[i] : i \in 1..Len(UbuntuKeys)} \cup { <<"L", "e", "f", "t", "_", "V", "e", "r", "s", "i", "o", "n">> },
                 FalsyVals \cup {PkgA, PkgB})
DebianFamily ==
    KeyedEntries({DebianKeys[i] : i \in 1..Len(DebianKeys)} \cup { <<"R", "I", "G", "H", "T", "_", "V", "E", "R", "S", "I", "O", "N">> },
                 FalsyVals \cup {PkgA, PkgB})
UploaderFamily ==
    KeyedEntries({UploaderKeys[i] : i \in 1..Len(UploaderKeys)} \cup { <<"U", "s", "e", "r">> },
                 FalsyVals \cup {PkgA, PkgB})
MiscFamily ==
    KeyedEntries({TeamsKey, AgeKey, <<"T", "e", "a", "m", "s">>, <<"s", "o", "u", "r", "c", "e">> },
                 {Arr(<<PkgA>>), Arr(<<>>), Str(<<"2", "w">>), Str(<<"-", "5", "d">>), Num(14),
                  Null, Unstringable})

PositionalInputs ==
    {Arr(q) : q \in SeqsUpTo(FalsyVals \cup {PkgA, PkgB, Unstringable}, MaxPos)}

\* the single entries: the keyed families and the positional entries
EntryInputs(i) ==
    CASE i = 1 -> NameFamily
      [] i = 2 -> UbuntuFamily
      [] i = 3 -> DebianFamily
      [] i = 4 -> UploaderFamily
      [] i = 5 -> MiscFamily
      [] OTHER -> PositionalInputs

\* the record of the repository's first normalizeData test (tests/api.test.ts 143-163)
TestEntry ==
    Obj(<< <<"s", "o", "u", "r", "c", "e", "_", "p", "a", "c", "k", "a", "g", "e">>, <<"l", "e", "f", "t", "_", "v", "e", "r", "s", "i", "o", "n">>, <<"r", "i", "g", "h", "t", "_", "v", "e", "r", "s", "i", "o", "n">>, <<"t", "e", "a", "m", "s">>, <<"a", "g", "e">>, <<"u", "p", "l", "o", "a", "d", "e", "r">> >>,
        << PkgA, Str(<<"1", ".", "0">>), Str(<<"1", ".", "1">>), Arr(<<Str(<<"d", "e", "s", "k">>)>>), Str(<<"5", "d">>), Str(<<"m", "e">>) >>)

\* an entry of six keys, none of them a name candidate
ManyKeysEntry ==
    Obj(<< <<"S", "t", "a", "t", "u", "s">>, <<"b">>, <<"C">>, <<"d">>, <<"e">>, <<"f">> >>,
        << PkgA, Num(1), Null, Str(<<>>), PkgB, Bool(TRUE) >>)

\* entries of every shape, for the payloads of several entries
ShapeEntries ==
    { Null, Undefined, Num(5), Str(<<"p", "k", "g">>), Bool(TRUE), ManyKeysEntry,
      Arr(<<PkgA, Str(<<"1", ".", "0">>), Str(<<"1", ".", "1">>)>>), Arr(<<>>),
      TestEntry, Obj(<<>>, <<>>),
      Obj(<< <<"s", "o", "u", "r", "c", "e">> >>, <<Unstringable>>), Arr(<<Arr(<<Unstringable>>)>>) }

MapKeys == << <<"k", "1">>, <<"k", "2">>, <<"k", "3">>, <<"k", "4">> >>

ShapePayloads ==
    { Undefined, Null, Num(0), Num(5), Str(<<>>), Str(<<"p", "k", "g">>), Bool(TRUE), Bool(FALSE) }
        \cup {Arr(q) : q \in SeqsUpTo(ShapeEntries, MaxEntries)}
        \cup {Obj(SubSeq(MapKeys, 1, Len(q)), q) : q \in SeqsUpTo(ShapeEntries, MaxEntries)}

\* the payloads of fetchMergeData's batches: positional entries whose names
\* collide, and hold '-' and digits
BatchNames == { <<"a">>, <<"a", "-", "0">> }
BatchPayloads ==
    {Arr([i \in 1..Len(q) |-> Arr(<<Str(q[i])>>)]) : q \in SeqsUpTo(BatchNames, MaxBatch)}

\* the lines of the changelog texts: headers with and without an epoch,
\* body lines, a blank line, an indented look-alike and plain text
ChangelogLines ==
    { <<"p", " ", "(", "1", ")">>, <<"p", " ", "(", "2", ")">>, <<"p", " ", "(", "1", ":", "2", ")">>, <<"q", " ", "(", "3", ":", "2", ")", " ", "u">>,
      <<" ", "*", " ", "x">>, <<>>, <<" ", "p", " ", "(", "1", ")">>, <<"e", "n", "d">> }

ChangelogTexts ==
    {JoinChars(q, <<"\n">>) : q \in SeqsUpTo(ChangelogLines, MaxLines) \ { <<>> }}

TargetVersions == { <<"1">>, <<"2">>, <<"1", ":", "2">>, <<"2", ":", "2">>, <<"9">> }

\* the arguments of isValidChangelog: white space, an opening that is or
\* resembles the start of an HTML page, and a run of one character
RECURSIVE Repeat(_, _)
Repeat(c, n) == IF n = 0 THEN <<>> ELSE <<c>> \o Repeat(c, n - 1)

ValidOpenings ==
    { <<>>, <<"<", "!", "d", "o", "c", "t", "y", "p", "e">>, <<"<", "!", "D", "O", "C", "T", "Y", "P", "E", " ">>, <<"<", "h", "t", "m", "l">>, <<"<", "H", "T", "M", "L", ">">>, <<"<", "h", "t", "m">>, <<"x", "<", "h", "t", "m", "l">> }
ValidFill == {"a", "A", CapitalIDot}
ValidMargins == { <<>>, <<" ">>, <<" ", "\n">> }
ValidTexts ==
    { lead \o open \o Repeat(c, n) \o tail :
          lead \in ValidMargins, open \in ValidOpenings, c \in ValidFill,
          n \in 0..MaxFill, tail \in ValidMargins }

\* what the proxies answer a single call: errors that can be told apart, a
\* thrown undefined, two statuses, and bodies of either kind
ThrownValues == {Err(<<"e", "1">>), Err(<<"e", "2">>), Undefined}
Statuses == {404, 500}
JsonBodies == {Arr(<<>>), Null}
TextBodies == {Str(<<"o", "k">>), Str(<<>>)}
Bodies(kind) == IF kind = "json" THEN JsonBodies ELSE TextBodies
Answers(kind) ==
    {Rejects(e) : e \in ThrownValues} \cup {NotOk(st) : st \in Statuses}
        \cup {BadBody(e) : e \in ThrownValues} \cup {Body(b) : b \in Bodies(kind)}
TargetUrl == <<"u">>

\* what the proxies answer each of the four fetches of fetchMergeData: the
\* first proxy serves; a later proxy serves; every proxy fails; the payload
\* that is served cannot be normalized
TwoEntries == Arr(<<Arr(<<Str(<<"a">>)>>), Arr(<<Str(<<"b">>)>>)>>)
OneEntry == Arr(<<Arr(<<Str(<<"c">>)>>)>>)
BadEntry == Arr(<<Arr(<<Unstringable>>)>>)
MergeNets ==
    { <<Body(TwoEntries), Body(OneEntry), Body(OneEntry)>>,
      <<Rejects(Err(<<"e", "1">>)), Body(OneEntry), Body(TwoEntries)>>,
      <<NotOk(500), BadBody(Err(<<"e", "2">>)), Rejects(Err(<<"e", "1">>))>>,
      <<BadBody(Err(<<"e", "2">>)), NotOk(404), Body(BadEntry)>> }

\* the packages whose changelog is fetched: versions without a colon, with
\* one, with two, and with nothing after it; a plain and a lib name
ChangelogVersions == { <<"2">>, <<"1", ":", "2">>, <<"1", ":", "2", ":", "3">>, <<"1", ":">> }
ChangelogNames == { <<"p", "k", "g">>, <<"l", "i", "b", "f", "o", "o">> }
ChangelogPkgs ==
    { [name |-> n, component |-> "Main", ubuntuVersion |-> v] :
          n \in ChangelogNames, v \in ChangelogVersions }

\* the bodies the changelog server sends: two changelogs, a 404 page, and a
\* text too short to be one
LongLine == Repeat("x", MinLength)
ChangelogA ==
    Str(JoinChars(<< <<"p", "k", "g", " ", "(", "1", ":", "2", ")", " ", "u">>, <<" ", " ", "*", " ">> \o LongLine, <<>>, <<"p", "k", "g", " ", "(", "1", ")", " ", "u">>, <<" ", " ", "*", " ", "o", "l", "d">> >>,
                  <<"\n">>))
ChangelogB == Str(JoinChars(<< <<"p", "k", "g", " ", "(", "3", ")", " ", "u">>, <<" ", " ", "*", " ">> \o LongLine >>, <<"\n">>))
NotFoundPage == Str(<<"<", "!", "d", "o", "c", "t", "y", "p", "e", " ", "h", "t", "m", "l", ">", "<", "h", "t", "m", "l", ">", "4", "0", "4", "<", "/", "h", "t", "m", "l", ">">> \o LongLine)
ShortText == Str(<<"p", "k", "g", " ", "(", "2", ")", " ", "u">>)

\* what the proxies answer the fetch of one candidate
ChangelogNets ==
    { <<Body(ChangelogA), Body(ChangelogB), Body(ChangelogB)>>,
      <<NotOk(404), Body(ChangelogB), Body(ChangelogA)>>,
      <<Body(NotFoundPage), Body(ChangelogA), Body(ChangelogA)>>,
      <<Rejects(Err(<<"e", "1">>)), NotOk(500), BadBody(Err(<<"e", "2">>))>>,
      <<BadBody(Err(<<"e", "2">>)), Body(ShortText), Body(ChangelogA)>> }
MaxCandidates == 3

\* the data sets of the list: record i of a set has its component, team,
\* age and uploader from its position, so that every filter splits the set;
\* the sizes lie on both sides of one, two and three pages
MaxPkgs == 52
AgeSamples == <<0, 3, 6, 7, 8, 30, 31, 180, 181, 365>>
UploaderSamples == << <<"A", "l", " ", "<", "a", "@", "x", ">">>, <<"U", "n", "k", "n", "o", "w", "n">>, <<>>, <<" ", "B", "o", " ">> >>
PkgAt(i) ==
    [name      |-> IF i % 2 = 0 THEN <<"A", "p", "t">> ELSE <<"b", "a", "s", "h">>,
     component |-> BatchOrder[(i % 4) + 1],
     teams     |-> IF i % 3 = 0 THEN << <<"d", "e", "s", "k">> >> ELSE IF i % 3 = 1 THEN << <<"d", "e", "s", "k">>, <<"s", "r", "v">> >> ELSE <<>>,
     ageInDays |-> AgeSamples[(i % Len(AgeSamples)) + 1],
     uploader  |-> UploaderSamples[(i % Len(UploaderSamples)) + 1]]
ListSizes == {0, 1, ITEMS_PER_PAGE, ITEMS_PER_PAGE + 1, MaxPkgs}
ListData == {[i \in 1..n |-> PkgAt(i)] : n \in ListSizes}
SearchTerms == { <<>>, <<"a">>, <<"B", "A", "S", "H">> }
InitialTeams == { <<>>, <<"s", "r", "v">> }

\* the ages of the record shown by the Dashboard and listed by PackageList
MaxDays == 200
BinData == { << [PkgAt(1) EXCEPT !.ageInDays = d] >> : d \in 0..MaxDays }

\* the packages whose Debian changelog is fetched, and what the proxies
\* answer the fetch of each source
DebianPkgs ==
    { [name |-> n, debianVersion |-> v] : n \in ChangelogNames, v \in ChangelogVersions }
DebianNets ==
    { <<Body(ChangelogA), Body(ChangelogB), Body(ChangelogB)>>,
      <<Body(NotFoundPage), NotOk(404), Body(ChangelogB)>>,
      <<Rejects(Err(<<"e", "1">>)), NotOk(500), BadBody(Err(<<"e", "2">>))>>,
      <<BadBody(Err(<<"e", "2">>)), Body(ShortText), Body(ShortText)>> }

\* the packages a modal is mounted for, how often it is opened while mounted,
\* and how a changelog fetch can settle
ModalPkgs == { [name |-> n] : n \in ChangelogNames }
MaxOpenings == 2
LogTexts == { <<"A">>, <<"B">> }
FetchOutcomes == { Resolved(Str(t)) : t \in LogTexts } \cup { Rejected(Err(<<"e">>)) }

\* how often loadData is called, and how its fetchMergeData can settle
MaxAttempts == 3
AppData == { [i \in 1..n |-> PkgAt(i)] : n \in 0..2 }
MergeFailures == { Err(<<"e", "1">>), Err(<<"e", "2">>), Err(<<"e", "3">>) }
MergeOutcomes == { Resolved(d) : d \in AppData } \cup { Rejected(e) : e \in MergeFailures }

(***************************************************************************)
(* Specifications.  Each draws the arguments of one call and makes it.     *)
(***************************************************************************)
IdleAge == ageInput = Undefined /\ ageOut = NoResult
IdleNorm == rawData = Undefined /\ component = "Main" /\ normOut = NoResult
IdleMerge == batchData = <<>> /\ mergeOut = NoResult
IdleExtract == fullText = <<>> /\ targetVersion = <<>> /\ extractOut = NoResult
IdleValid == validText = <<>> /\ validOut = NoResult
IdleFetch == fb = <<>>
IdleGather == gather = NoResult
IdleChangelog == cl = NoResult
IdleList == packageList = NoResult
IdleDashboard == dashboard = NoResult
IdleDebian == dcl = NoResult
IdleComparison == comparisonModal = NoResult
IdleModal == changelogModal = NoResult
IdleApp == app = NoResult

ageVars == <<ageInput, ageOut>>
normVars == <<rawData, component, normOut>>
mergeVars == <<batchData, mergeOut>>
extractVars == <<fullText, targetVersion, extractOut>>
validVars == <<validText, validOut>>
fetchVars == <<fb>>
gatherVars == <<gather>>
changelogVars == <<cl>>
listVars == <<packageList>>
dashboardVars == <<dashboard>>
debianVars == <<dcl>>
comparisonVars == <<comparisonModal>>
modalVars == <<changelogModal>>
appVars == <<app>>

\* the record normalizer
Init ==
    /\ phase = "input"
    /\ \/ rawData \in ShapePayloads /\ component \in PackageSet
       \/ /\ \E i \in 1..6 : \E e \in EntryInputs(i) : rawData = Arr(<<e>>)
          /\ component = "Main"
    /\ normOut = NoResult
    /\ IdleAge /\ IdleMerge /\ IdleExtract /\ IdleValid /\ IdleFetch /\ IdleGather /\ IdleChangelog /\ IdleList /\ IdleDashboard /\ IdleDebian /\ IdleComparison /\ IdleModal /\ IdleApp

Normalize ==
    /\ phase = "input"
    /\ normOut' = normalizeData(rawData, component)
    /\ phase' = "done"
    /\ UNCHANGED <<rawData, component, ageVars, mergeVars, extractVars, validVars, fetchVars, gatherVars, changelogVars, listVars, dashboardVars, debianVars, comparisonVars, modalVars, appVars>>

Next == Normalize

Spec == Init /\ [][Next]_vars

\* the duration parser
InitAge ==
    /\ phase = "input"
    /\ ageInput \in AgeInputs
    /\ ageOut = NoResult
    /\ IdleNorm /\ IdleMerge /\ IdleExtract /\ IdleValid /\ IdleFetch /\ IdleGather /\ IdleChangelog /\ IdleList /\ IdleDashboard /\ IdleDebian /\ IdleComparison /\ IdleModal /\ IdleApp

ParseAge ==
    /\ phase = "input"
    /\ ageOut' = parseAgeToDays(ageInput)
    /\ phase' = "done"
    /\ UNCHANGED <<ageInput, normVars, mergeVars, extractVars, validVars, fetchVars, gatherVars, changelogVars, listVars, dashboardVars, debianVars, comparisonVars, modalVars, appVars>>

NextAge == ParseAge

SpecAge == InitAge /\ [][NextAge]_vars

\* the four batches combined
InitMerge ==
    /\ phase = "input"
    /\ batchData \in [PackageSet -> BatchPayloads]
    /\ mergeOut = NoResult
    /\ IdleAge /\ IdleNorm /\ IdleExtract /\ IdleValid /\ IdleFetch /\ IdleGather /\ IdleChangelog /\ IdleList /\ IdleDashboard /\ IdleDebian /\ IdleComparison /\ IdleModal /\ IdleApp

Combine ==
    /\ phase = "input"
    /\ mergeOut' = CombineBatches(batchData)
    /\ phase' = "done"
    /\ UNCHANGED <<batchData, ageVars, normVars, extractVars, validVars, fetchVars, gatherVars, changelogVars, listVars, dashboardVars, debianVars, comparisonVars, modalVars, appVars>>

NextMerge == Combine

SpecMerge == InitMerge /\ [][NextMerge]_vars

\* the changelog entry extractor
InitExtract ==
    /\ phase = "input"
    /\ fullText \in ChangelogTexts
    /\ targetVersion \in TargetVersions
    /\ extractOut = NoResult
    /\ IdleAge /\ IdleNorm /\ IdleMerge /\ IdleValid /\ IdleFetch /\ IdleGather /\ IdleChangelog /\ IdleList /\ IdleDashboard /\ IdleDebian /\ IdleComparison /\ IdleModal /\ IdleApp

Extract ==
    /\ phase = "input"
    /\ extractOut' = [k |-> "returned", text |-> extractChangelogEntry(fullText, targetVersion)]
    /\ phase' = "done"
    /\ UNCHANGED <<fullText, targetVersion, ageVars, normVars, mergeVars, validVars, fetchVars, gatherVars, changelogVars, listVars, dashboardVars, debianVars, comparisonVars, modalVars, appVars>>

NextExtract == Extract

SpecExtract == InitExtract /\ [][NextExtract]_vars

\* the changelog validator
InitValid ==
    /\ phase = "input"
    /\ validText \in ValidTexts
    /\ validOut = NoResult
    /\ IdleAge /\ IdleNorm /\ IdleMerge /\ IdleExtract /\ IdleFetch /\ IdleGather /\ IdleChangelog /\ IdleList /\ IdleDashboard /\ IdleDebian /\ IdleComparison /\ IdleModal /\ IdleApp

Validate ==
    /\ phase = "input"
    /\ validOut' = [k |-> "returned", ok |-> isValidChangelog(validText)]
    /\ phase' = "done"
    /\ UNCHANGED <<validText, ageVars, normVars, mergeVars, extractVars, fetchVars, gatherVars, changelogVars, listVars, dashboardVars, debianVars, comparisonVars, modalVars, appVars>>

NextValid == Validate

SpecValid == InitValid /\ [][NextValid]_vars

\* one call of fetchDataWithFallback or fetchTextWithFallback.  Each action
\* is one iteration of the for loop, by what the proxy answers, or the final
\* throw.
TheCall == "call"

InitFetch ==
    /\ phase = "input"
    /\ \E kind \in {"json", "text"} : \E net \in [1..Len(PROXIES) -> Answers(kind)] :
           fb = [j \in {TheCall} |-> NewJob(kind, TargetUrl, net)]
    /\ IdleAge /\ IdleNorm /\ IdleMerge /\ IdleExtract /\ IdleValid /\ IdleGather /\ IdleChangelog /\ IdleList /\ IdleDashboard /\ IdleDebian /\ IdleComparison /\ IdleModal /\ IdleApp

\* await fetch(url) rejects
FetchRejects(j) ==
    /\ Attempting(fb[j])
    /\ fb[j].net[fb[j].next].k = "rejects"
    /\ fb' = [fb EXCEPT ![j] = AfterFailure(@)]

\* if (!res.ok) throw ...
ResponseNotOk(j) ==
    /\ Attempting(fb[j])
    /\ fb[j].net[fb[j].next].k = "status"
    /\ fb' = [fb EXCEPT ![j] = AfterFailure(@)]

\* await res.json() / res.text() rejects
BodyFails(j) ==
    /\ Attempting(fb[j])
    /\ fb[j].net[fb[j].next].k = "badbody"
    /\ fb' = [fb EXCEPT ![j] = AfterFailure(@)]

\* the body arrives and is returned
BodyArrives(j) ==
    /\ Attempting(fb[j])
    /\ fb[j].net[fb[j].next].k = "ok"
    /\ fb' = [fb EXCEPT ![j] = AfterBody(@, fb[j].net[fb[j].next].body)]

\* the loop is over: throw lastError || new Error(...)
ProxiesExhausted(j) ==
    /\ fb[j].out = NoResult
    /\ fb[j].next > Len(PROXIES)
    /\ fb' = [fb EXCEPT ![j] = AfterExhausted(@)]

\* nothing but the calls changes
OnlyFetch == UNCHANGED <<phase, ageVars, normVars, mergeVars, extractVars, validVars, gatherVars, changelogVars, listVars, dashboardVars, debianVars, comparisonVars, modalVars, appVars>>

NextFetch ==
    \/ FetchRejects(TheCall) /\ OnlyFetch
    \/ ResponseNotOk(TheCall) /\ OnlyFetch
    \/ BodyFails(TheCall) /\ OnlyFetch
    \/ BodyArrives(TheCall) /\ OnlyFetch
    \/ ProxiesExhausted(TheCall) /\ OnlyFetch

SpecFetch == InitFetch /\ [][NextFetch]_vars

\* fetchMergeData: the four fetches run concurrently, one proxy answer at a
\* time in any interleaving; the Promise.all and the function itself settle
\* in the same turn as the fetch that settles them.
InitFetchMerge ==
    /\ phase = "input"
    /\ \E nets \in [PackageSet -> MergeNets] :
           fb = [j \in PackageSet |-> NewJob("json", BatchUrl(j), nets[j])]
    /\ gather = Pending(<<>>)
    /\ batchData = <<>>
    /\ mergeOut = NoResult
    /\ IdleAge /\ IdleNorm /\ IdleExtract /\ IdleValid /\ IdleChangelog /\ IdleList /\ IdleDashboard /\ IdleDebian /\ IdleComparison /\ IdleModal /\ IdleApp

OnlyFetchMerge == UNCHANGED <<phase, ageVars, normVars, extractVars, validVars, changelogVars, listVars, dashboardVars, debianVars, comparisonVars, modalVars, appVars>>
StillFetching == UNCHANGED <<gather, batchData, mergeOut>>

\* what follows when the fetch of batch j is fulfilled: the Promise.all is
\* fulfilled with the last of the four, and the bodies are then combined
BatchFulfilled(j) ==
    /\ gather' = GatherAfterBody(gather, fb', j)
    /\ batchData' = IF gather.state = "pending" /\ gather'.state = "fulfilled"
                    THEN GatheredData(fb') ELSE batchData
    /\ mergeOut' = MergeOutcome(gather', fb', mergeOut)

\* what follows when the fetch of batch j is rejected: the first rejection
\* rejects the Promise.all, and the await rethrows it
BatchRejected(j) ==
    /\ gather' = GatherAfterRejection(gather, fb', j)
    /\ mergeOut' = IF mergeOut # NoResult THEN mergeOut ELSE Rejected(fb'[j].out.error)
    /\ UNCHANGED batchData

BatchFetchRejects == \E j \in PackageSet : FetchRejects(j) /\ StillFetching /\ OnlyFetchMerge
BatchResponseNotOk == \E j \in PackageSet : ResponseNotOk(j) /\ StillFetching /\ OnlyFetchMerge
BatchBodyFails == \E j \in PackageSet : BodyFails(j) /\ StillFetching /\ OnlyFetchMerge
BatchBodyArrives == \E j \in PackageSet : BodyArrives(j) /\ BatchFulfilled(j) /\ OnlyFetchMerge
BatchExhausted == \E j \in PackageSet : ProxiesExhausted(j) /\ BatchRejected(j) /\ OnlyFetchMerge

NextFetchMerge ==
    \/ BatchFetchRejects
    \/ BatchResponseNotOk
    \/ BatchBodyFails
    \/ BatchBodyArrives
    \/ BatchExhausted

SpecFetchMerge == InitFetchMerge /\ [][NextFetchMerge]_vars

\* fetchChangelog: the candidates are fetched one after the other, each by a
\* fetchTextWithFallback whose proxies answer one at a time; the loop moves
\* in the same turn as the fetch that settles.
InitChangelog ==
    /\ phase = "input"
    /\ \E pkg \in ChangelogPkgs : \E nets \in [1..MaxCandidates -> ChangelogNets] :
           /\ cl = NextCandidate(NewChangelogCall(pkg, nets))
           /\ fb = JobsAfter(<<>>, cl)
    /\ IdleAge /\ IdleNorm /\ IdleMerge /\ IdleExtract /\ IdleValid /\ IdleGather /\ IdleList /\ IdleDashboard /\ IdleDebian /\ IdleComparison /\ IdleModal /\ IdleApp

OnlyChangelog ==
    UNCHANGED <<phase, ageVars, normVars, mergeVars, extractVars, validVars, gatherVars, listVars, dashboardVars, debianVars, comparisonVars, modalVars, appVars>>

Fetching == cl.out = NoResult

\* the fetch of the current candidate settled as job: the loop moves
CandidateSettles(job) ==
    LET c2 == ChangelogAfter(cl, job)
    IN /\ cl' = c2
       /\ fb' = JobsAfter([fb EXCEPT ![cl.index] = job], c2)

CandidateFetchRejects ==
    Fetching /\ FetchRejects(cl.index) /\ UNCHANGED cl /\ OnlyChangelog
CandidateResponseNotOk ==
    Fetching /\ ResponseNotOk(cl.index) /\ UNCHANGED cl /\ OnlyChangelog
CandidateBodyFails ==
    Fetching /\ BodyFails(cl.index) /\ UNCHANGED cl /\ OnlyChangelog
CandidateBodyArrives ==
    /\ Fetching
    /\ Attempting(fb[cl.index])
    /\ fb[cl.index].net[fb[cl.index].next].k = "ok"
    /\ CandidateSettles(AfterBody(fb[cl.index], fb[cl.index].net[fb[cl.index].next].body))
    /\ OnlyChangelog
CandidateExhausted ==
    /\ Fetching
    /\ fb[cl.index].out = NoResult
    /\ fb[cl.index].next > Len(PROXIES)
    /\ CandidateSettles(AfterExhausted(fb[cl.index]))
    /\ OnlyChangelog

NextChangelog ==
    \/ CandidateFetchRejects
    \/ CandidateResponseNotOk
    \/ CandidateBodyFails
    \/ CandidateBodyArrives
    \/ CandidateExhausted

SpecChangelog == InitChangelog /\ [][NextChangelog]_vars

\* PackageList: mounted over a data set, then driven by its inputs
InitList ==
    /\ phase = "input"
    /\ \E data \in ListData : \E team \in InitialTeams : packageList = NewList(data, team)
    /\ IdleAge /\ IdleNorm /\ IdleMerge /\ IdleExtract /\ IdleValid /\ IdleFetch /\ IdleGather /\ IdleChangelog /\ IdleDashboard /\ IdleDebian /\ IdleComparison /\ IdleModal /\ IdleApp

OnlyList ==
    UNCHANGED <<phase, ageVars, normVars, mergeVars, extractVars, validVars, fetchVars, gatherVars, changelogVars, dashboardVars, debianVars, comparisonVars, modalVars, appVars>>

EditSearch == \E value \in SearchTerms : packageList' = SearchChanged(packageList, value) /\ OnlyList
SelectComponent == \E value \in PackageSet \cup {"All"} : packageList' = ComponentChanged(packageList, value) /\ OnlyList
SelectTeam == \E value \in uniqueTeams(packageList.data) \cup {AllOption} : packageList' = TeamChanged(packageList, value) /\ OnlyList
SelectUploader == \E value \in uniqueUploaders(packageList.data) \cup {AllOption} : packageList' = UploaderChanged(packageList, value) /\ OnlyList
SelectAge == \E value \in {AgeLabels[i] : i \in 1..Len(AgeLabels)} \cup {"All"} : packageList' = AgeChanged(packageList, value) /\ OnlyList
ToggleSort == \E field \in SortFields : packageList' = SortToggled(packageList, field) /\ OnlyList
ClickPrevious == PreviousEnabled(packageList) /\ packageList' = PreviousClicked(packageList) /\ OnlyList
ClickNext == NextEnabled(packageList) /\ packageList' = NextClicked(packageList) /\ OnlyList

NextList ==
    \/ EditSearch
    \/ SelectComponent
    \/ SelectTeam
    \/ SelectUploader
    \/ SelectAge
    \/ ToggleSort
    \/ ClickPrevious
    \/ ClickNext

SpecList == InitList /\ [][NextList]_vars

\* the Dashboard and the PackageList over the same data
InitBins ==
    /\ phase = "input"
    /\ \E data \in BinData : packageList = NewList(data, <<>>)
    /\ dashboard = NoResult
    /\ IdleAge /\ IdleNorm /\ IdleMerge /\ IdleExtract /\ IdleValid /\ IdleFetch /\ IdleGather /\ IdleChangelog /\ IdleDebian /\ IdleComparison /\ IdleModal /\ IdleApp

OnlyBins ==
    UNCHANGED <<phase, ageVars, normVars, mergeVars, extractVars, validVars, fetchVars, gatherVars, changelogVars, debianVars, comparisonVars, modalVars, appVars>>

RenderDashboard ==
    /\ dashboard = NoResult
    /\ dashboard' = Stats(packageList.data)
    /\ UNCHANGED packageList
    /\ OnlyBins

FilterByAge == SelectAge

NextBins ==
    \/ RenderDashboard
    \/ FilterByAge

SpecBins == InitBins /\ [][NextBins]_vars

\* fetchDebianChangelog: the sources are fetched one after the other, each
\* by a fetchTextWithFallback whose proxies answer one at a time
InitDebian ==
    /\ phase = "input"
    /\ \E pkg \in DebianPkgs : \E nets \in [1..(Len(DebianComponents) + 1) -> DebianNets] :
           /\ dcl = NextSource(NewDebianCall(pkg, nets))
           /\ fb = DebianJobsAfter(<<>>, dcl)
    /\ IdleAge /\ IdleNorm /\ IdleMerge /\ IdleExtract /\ IdleValid /\ IdleGather /\ IdleChangelog /\ IdleList /\ IdleDashboard /\ IdleComparison /\ IdleModal /\ IdleApp

OnlyDebian ==
    UNCHANGED <<phase, ageVars, normVars, mergeVars, extractVars, validVars, gatherVars, changelogVars, listVars, dashboardVars, comparisonVars, modalVars, appVars>>

DebianFetching == dcl.out = NoResult

\* the fetch of the current source settled as job: the function moves
SourceSettles(job) ==
    LET c2 == DebianAfter(dcl, job)
    IN /\ dcl' = c2
       /\ fb' = DebianJobsAfter([fb EXCEPT ![dcl.index] = job], c2)

SourceFetchRejects ==
    DebianFetching /\ FetchRejects(dcl.index) /\ UNCHANGED dcl /\ OnlyDebian
SourceResponseNotOk ==
    DebianFetching /\ ResponseNotOk(dcl.index) /\ UNCHANGED dcl /\ OnlyDebian
SourceBodyFails ==
    DebianFetching /\ BodyFails(dcl.index) /\ UNCHANGED dcl /\ OnlyDebian
SourceBodyArrives ==
    /\ DebianFetching
    /\ Attempting(fb[dcl.index])
    /\ fb[dcl.index].net[fb[dcl.index].next].k = "ok"
    /\ SourceSettles(AfterBody(fb[dcl.index], fb[dcl.index].net[fb[dcl.index].next].body))
    /\ OnlyDebian
SourceExhausted ==
    /\ DebianFetching
    /\ fb[dcl.index].out = NoResult
    /\ fb[dcl.index].next > Len(PROXIES)
    /\ SourceSettles(AfterExhausted(fb[dcl.index]))
    /\ OnlyDebian

NextDebian ==
    \/ SourceFetchRejects
    \/ SourceResponseNotOk
    \/ SourceBodyFails
    \/ SourceBodyArrives
    \/ SourceExhausted

SpecDebian == InitDebian /\ [][NextDebian]_vars

\* ComparisonModal under PackageDetail: a package is selected, the modal is
\* opened and closed, and the fetches of every run settle in any order
InitCompare ==
    /\ phase = "input"
    /\ comparisonModal = NewComparison(Null)
    /\ IdleAge /\ IdleNorm /\ IdleMerge /\ IdleExtract /\ IdleValid /\ IdleFetch /\ IdleGather /\ IdleChangelog /\ IdleList /\ IdleDashboard /\ IdleDebian /\ IdleModal /\ IdleApp

OnlyCompare ==
    UNCHANGED <<phase, ageVars, normVars, mergeVars, extractVars, validVars, fetchVars, gatherVars, changelogVars, listVars, dashboardVars, debianVars, modalVars, appVars>>

\* App: onSelectPackage mounts the panel and its modals for pkg
MountComparison ==
    /\ comparisonModal.pkg = Null
    /\ \E pkg \in ModalPkgs : comparisonModal' = NewComparison(pkg)
    /\ OnlyCompare

\* App: onClose of the panel unmounts them; what an unmounted component's
\* promises set afterwards is dropped
UnmountComparison ==
    /\ comparisonModal.pkg # Null
    /\ ~comparisonModal.isOpen
    /\ comparisonModal' = NewComparison(Null)
    /\ OnlyCompare

\* PackageDetail: the compare button, reachable while no modal covers it
OpenCompare ==
    /\ comparisonModal.pkg # Null
    /\ ~comparisonModal.isOpen
    /\ Len(comparisonModal.runs) < MaxOpenings
    /\ comparisonModal' = ComparisonEffect([comparisonModal EXCEPT !.isOpen = TRUE])
    /\ OnlyCompare

\* onClose of the modal
CloseCompare ==
    /\ comparisonModal.isOpen
    /\ comparisonModal' = ComparisonEffect([comparisonModal EXCEPT !.isOpen = FALSE])
    /\ OnlyCompare

UbuntuSettles ==
    /\ \E r \in DOMAIN comparisonModal.runs : \E out \in FetchOutcomes :
           /\ comparisonModal.runs[r].p1 = NoResult
           /\ comparisonModal' = UbuntuSettled(comparisonModal, r, out)
    /\ OnlyCompare

DebianSettles ==
    /\ \E r \in DOMAIN comparisonModal.runs : \E out \in FetchOutcomes :
           /\ comparisonModal.runs[r].p2 = NoResult
           /\ comparisonModal' = DebianSettled(comparisonModal, r, out)
    /\ OnlyCompare

NextCompare ==
    \/ MountComparison
    \/ UnmountComparison
    \/ OpenCompare
    \/ CloseCompare
    \/ UbuntuSettles
    \/ DebianSettles

SpecCompare == InitCompare /\ [][NextCompare]_vars

\* ChangelogModal under PackageDetail: a package is selected, a changelog is
\* shown and closed, and the fetch of every run settles at any time
InitModal ==
    /\ phase = "input"
    /\ changelogModal = NewChangelogModal(Null)
    /\ IdleAge /\ IdleNorm /\ IdleMerge /\ IdleExtract /\ IdleValid /\ IdleFetch /\ IdleGather /\ IdleChangelog /\ IdleList /\ IdleDashboard /\ IdleDebian /\ IdleComparison /\ IdleApp

OnlyModal ==
    UNCHANGED <<phase, ageVars, normVars, mergeVars, extractVars, validVars, fetchVars, gatherVars, changelogVars, listVars, dashboardVars, debianVars, comparisonVars, appVars>>

\* App: onSelectPackage mounts the panel and its modals for pkg
MountModal ==
    /\ changelogModal.pkg = Null
    /\ \E pkg \in ModalPkgs : changelogModal' = NewChangelogModal(pkg)
    /\ OnlyModal

\* App: onClose of the panel unmounts them; what an unmounted component's
\* promise sets afterwards is dropped
UnmountModal ==
    /\ changelogModal.pkg # Null
    /\ ~ModalIsOpen(changelogModal)
    /\ changelogModal' = NewChangelogModal(Null)
    /\ OnlyModal

\* PackageDetail: a version box is clicked, reachable while no modal covers it
ShowChangelog ==
    /\ changelogModal.pkg # Null
    /\ ~ModalIsOpen(changelogModal)
    /\ Len(changelogModal.runs) < MaxOpenings
    /\ \E v \in {UbuntuVariant, DebianVariant} :
           changelogModal' = ChangelogEffect([changelogModal EXCEPT !.changelogVariant = v])
    /\ OnlyModal

\* onClose of the modal: setChangelogVariant(null)
CloseModal ==
    /\ ModalIsOpen(changelogModal)
    /\ changelogModal' = ChangelogEffect([changelogModal EXCEPT !.changelogVariant = Null])
    /\ OnlyModal

FetcherSettles ==
    /\ \E r \in DOMAIN changelogModal.runs : \E out \in FetchOutcomes :
           /\ changelogModal.runs[r].out = NoResult
           /\ changelogModal' = FetcherSettled(changelogModal, r, out)
    /\ OnlyModal

NextModal ==
    \/ MountModal
    \/ UnmountModal
    \/ ShowChangelog
    \/ CloseModal
    \/ FetcherSettles

SpecModal == InitModal /\ [][NextModal]_vars

\* App: the effect calls loadData once, fetchMergeData settles, loadData
\* resumes after its await, and the retry button calls loadData again
InitApp ==
    /\ phase = "input"
    /\ app = NewApp
    /\ IdleAge /\ IdleNorm /\ IdleMerge /\ IdleExtract /\ IdleValid /\ IdleFetch /\ IdleGather /\ IdleChangelog /\ IdleList /\ IdleDashboard /\ IdleDebian /\ IdleComparison /\ IdleModal

OnlyApp ==
    UNCHANGED <<phase, ageVars, normVars, mergeVars, extractVars, validVars, fetchVars, gatherVars, changelogVars, listVars, dashboardVars, debianVars, comparisonVars, modalVars>>

\* useEffect(() => { loadData(); }, [])
AppMounts ==
    /\ app.attempts = <<>>
    /\ app' = LoadDataStarted(app)
    /\ OnlyApp

\* the promise of fetchMergeData settles
MergeDataSettles ==
    /\ \E i \in DOMAIN app.attempts : \E out \in MergeOutcomes :
           /\ app.attempts[i].out = NoResult
           /\ app' = [app EXCEPT !.attempts[i].out = out]
    /\ OnlyApp

\* the continuation of the await
LoadDataResumes ==
    /\ \E i \in DOMAIN app.attempts :
           /\ app.attempts[i].out # NoResult
           /\ ~app.attempts[i].resumed
           /\ app' = LoadDataResumed(app, i)
    /\ OnlyApp

\* onClick={loadData} of the retry button, which the error state renders
RetryClicked ==
    /\ AppView(app).t = "error"
    /\ Len(app.attempts) < MaxAttempts
    /\ app' = LoadDataStarted(app)
    /\ OnlyApp

NextApp ==
    \/ AppMounts
    \/ MergeDataSettles
    \/ LoadDataResumes
    \/ RetryClicked

SpecApp == InitApp /\ [][NextApp]_vars

\* the effect of the mounted App runs and a settled promise's continuation
\* runs: the scheduler of React and the job queue leave neither waiting
SpecAppLive == SpecApp /\ WF_vars(AppMounts) /\ WF_vars(LoadDataResumes)

(***************************************************************************)
(* Claims about the duration parser.                                       *)
(***************************************************************************)
AgeDone == phase = "done" /\ ageOut # NoResult

\* C1: parseAgeToDays is total and non-negative: for every string, number,
\* null or undefined input it returns an integer >= 0.
C1_TotalNonNegative ==
    AgeDone => (ageOut.k = "int" /\ ageOut.v >= 0)

\* A duration of the form <number><unit>: digits with at most one '.', then
\* d, w, mo or y; letter case and surrounding white space do not matter.
IsNumberText(t) ==
    /\ \A i \in 1..Len(t) : IsDigit(t[i]) \/ t[i] = "."
    /\ \E i \in 1..Len(t) : IsDigit(t[i])
    /\ Cardinality({i \in 1..Len(t) : t[i] = "."}) <= 1

UnitTexts == {<<"d">>, <<"w">>, <<"m", "o">>, <<"y">>}

UnitDays(u) ==
    IF u = <<"y">> THEN 365 ELSE IF u = <<"m", "o">> THEN 30
    ELSE IF u = <<"w">> THEN 7 ELSE 1

DurationUnit(s) ==
    LET t == trim(toLowerCase(s))
    IN {u \in UnitTexts :
           /\ Len(t) > Len(u)
           /\ SubSeq(t, Len(t) - Len(u) + 1, Len(t)) = u
           /\ IsNumberText(SubSeq(t, 1, Len(t) - Len(u)))}

\* round(number * unitDays) in exact arithmetic, a half rounding up
ExactDays(s, u) ==
    LET t    == trim(toLowerCase(s))
        num  == SubSeq(t, 1, Len(t) - Len(u))
        dotAt == IF \E i \in 1..Len(num) : num[i] = "."
                 THEN CHOOSE i \in 1..Len(num) : num[i] = "." ELSE Len(num) + 1
        digs == SubSeq(num, 1, dotAt - 1) \o SubSeq(num, dotAt + 1, Len(num))
        den  == Pow10(IF dotAt > Len(num) THEN 0 ELSE Len(num) - dotAt)
    IN (2 * DigitsToNat(digs) * UnitDays(u) + den) \div (2 * den)

\* C2: for every duration string <number><unit>, parseAgeToDays returns
\* round(number * unitDays), unitDays = 1, 7, 30, 365, halves rounding up.
C2_RoundedProduct ==
    (AgeDone /\ ageInput.t = "string") =>
        \A u \in DurationUnit(ageInput.s) : ageOut = IntNum(ExactDays(ageInput.s, u))

\* C3: parseAgeToDays returns 0 for every string with no leading numeric
\* portion (the empty string, a word made only of letters).
C3_NonNumericYieldsZero ==
    (AgeDone /\ ageInput.t = "string"
        /\ parseFloat(trim(toLowerCase(ageInput.s))) = NaN) => ageOut = IntNum(0)

\* The checks of the parser in their priority order, with the day count of
\* one unit (0: the time format).
AgeChecks == << [sub |-> <<"y">>, days |-> 365], [sub |-> <<"m", "o">>, days |-> 30],
                [sub |-> <<"w">>, days |-> 7],   [sub |-> <<"d">>, days |-> 1],
                [sub |-> <<":">>, days |-> 0] >>

FiringChecks(str) == {i \in 1..Len(AgeChecks) : includes(str, AgeChecks[i].sub)}

FirstCheck(str) == CHOOSE i \in FiringChecks(str) : \A j \in FiringChecks(str) : i <= j

\* C4: the lower-cased, trimmed input is classified by containment in the
\* order y, mo, w, d, ':', bare number, and the earliest check that fires
\* alone decides the result.
C4_PriorityOrder ==
    (AgeDone /\ ageInput.t \in {"string", "number"}) =>
        LET str == trim(toLowerCase(AgeString(ageInput)))
            n   == parseFloat(str)
        IN IF FiringChecks(str) = {}
           THEN ageOut = (IF n = NaN THEN IntNum(0) ELSE MathRound(n))
           ELSE LET c == AgeChecks[FirstCheck(str)]
                IN ageOut = (IF c.days = 0 THEN IntNum(0)
                             ELSE IF c.days = 1 THEN MathRound(n)
                             ELSE MathRound(FMul(n, c.days)))

\* C4 witness: an input on which both the year and the day check fire has
\* been resolved as years.
C4_Witness ==
    /\ AgeDone /\ ageInput.t = "string"
    /\ ageInput.s = <<"5", "d", "y">>
    /\ ageOut = IntNum(1825)

(***************************************************************************)
(* Claims about the record normalizer.                                     *)
(***************************************************************************)
NormDone == phase = "done" /\ normOut # NoResult

\* the payload is one entry in an array, and the entry is an object / an array
SingleEntry == rawData.t = "array" /\ Len(rawData.items) = 1
TheEntry == rawData.items[1]
SingleKeyed == SingleEntry /\ TheEntry.t = "object"
SinglePositional == SingleEntry /\ TheEntry.t = "array"
TheRecord == normOut.recs[1]

\* C5: normalizeData is total over JSON-shaped input: it returns an array for
\* every payload and every shape of entry, never raising, and a payload that
\* is neither a non-null object nor an array yields the empty array.
C5_NormalizeTotal ==
    NormDone =>
        /\ normOut.k = "returned"
        /\ rawData.t \notin {"object", "array"} => normOut.recs = <<>>

\* The candidate keys of an entry, read off the entry itself: a candidate is
\* present when some key of the entry equals it after lower-casing, and its
\* value is that of the last such key.
CandIndexes(item, cand) == {i \in 1..Len(item.keys) : toLowerCase(item.keys[i]) = cand}
CandPresent(item, cand) == CandIndexes(item, cand) # {}
CandValue(item, cand) ==
    item.vals[CHOOSE i \in CandIndexes(item, cand) : \A j \in CandIndexes(item, cand) : j <= i]

Least(S) == CHOOSE i \in S : \A j \in S : i <= j

PresentCands(item, cands) == {i \in 1..Len(cands) : CandPresent(item, cands[i])}
TruthyCands(item, cands) ==
    {i \in PresentCands(item, cands) : Truthy(CandValue(item, cands[i]))}

\* C7 as stated: each of name, ubuntuVersion, debianVersion and uploader is the
\* value of the first candidate key that is present, whatever its value (an
\* empty string, 0, false or null included).
FirstPresentIs(item, cands, got) ==
    PresentCands(item, cands) # {} =>
        got = JSToString(CandValue(item, cands[Least(PresentCands(item, cands))])).s

C7_FirstPresent ==
    (NormDone /\ SingleKeyed /\ normOut.k = "returned") =>
        /\ FirstPresentIs(TheEntry, NameKeys, TheRecord.name)
        /\ FirstPresentIs(TheEntry, UbuntuKeys, TheRecord.ubuntuVersion)
        /\ FirstPresentIs(TheEntry, DebianKeys, TheRecord.debianVersion)
        /\ FirstPresentIs(TheEntry, UploaderKeys, TheRecord.uploader)

\* C7 amended: each field is String() of the value of the first candidate key
\* whose value is truthy; absent candidates and candidates holding null,
\* false, 0 or the empty string are passed over, and the sentinel stands when
\* no candidate is truthy.  A name that resolves to the sentinel 'Unknown',
\* by default or by value, is shown as the diagnostic 'Unknown (Keys: ...'.
FirstTruthyIs(item, cands, sentinel, got) ==
    IF TruthyCands(item, cands) = {} THEN got = sentinel
    ELSE got = JSToString(CandValue(item, cands[Least(TruthyCands(item, cands))])).s

C7_FirstTruthy ==
    (NormDone /\ SingleKeyed /\ normOut.k = "returned") =>
        /\ \/ FirstTruthyIs(TheEntry, NameKeys, Unknown, TheRecord.name)
              /\ TheRecord.name # Unknown
           \/ FirstTruthyIs(TheEntry, NameKeys, Unknown, Unknown)
              /\ startsWith(TheRecord.name, <<"U", "n", "k", "n", "o", "w", "n", " ", "(", "K", "e", "y", "s", ":", " ">>)
        /\ FirstTruthyIs(TheEntry, UbuntuKeys, NotAvailable, TheRecord.ubuntuVersion)
        /\ FirstTruthyIs(TheEntry, DebianKeys, NotAvailable, TheRecord.debianVersion)
        /\ FirstTruthyIs(TheEntry, UploaderKeys, Unknown, TheRecord.uploader)

\* C7 witness: the first name candidate is present and empty, and the second
\* candidate's value became the name.
C7_Witness ==
    /\ NormDone /\ SingleKeyed /\ normOut.k = "returned"
    /\ TheEntry = Obj(<< <<"s", "o", "u", "r", "c", "e", "_", "p", "a", "c", "k", "a", "g", "e">>, <<"s", "o", "u", "r", "c", "e">> >>, <<Str(<<>>), PkgA>>)
    /\ TheRecord.name = <<"p", "k", "g">>

NoCand(item, cands) == PresentCands(item, cands) = {}

\* C8: a keyed entry that lacks every candidate key of a field gets that
\* field's sentinel: 'N/A' for the versions, 'Unknown' for the uploader, the
\* empty array for teams (also when the teams value is not an array), '0d'
\* and 0 days for the age; an exception never comes from an absent field,
\* only from a present value that String() cannot convert.
C8_MissingFieldDefaults ==
    (NormDone /\ SingleKeyed) =>
        /\ normOut.k = "returned" =>
            /\ NoCand(TheEntry, UbuntuKeys) => TheRecord.ubuntuVersion = <<"N", "/", "A">>
            /\ NoCand(TheEntry, DebianKeys) => TheRecord.debianVersion = <<"N", "/", "A">>
            /\ NoCand(TheEntry, UploaderKeys) => TheRecord.uploader = <<"U", "n", "k", "n", "o", "w", "n">>
            /\ (~CandPresent(TheEntry, TeamsKey)
                    \/ CandValue(TheEntry, TeamsKey).t # "array") => TheRecord.teams = <<>>
            /\ ~CandPresent(TheEntry, AgeKey) =>
                    (TheRecord.age = <<"0", "d">> /\ TheRecord.ageInDays = IntNum(0))
        /\ normOut.k = "raised" =>
            \E i \in 1..Len(TheEntry.vals) : ~JSToString(TheEntry.vals[i]).ok

\* C8 witness: an entry with nothing but a name, and one whose teams value is
\* a string, have been given the sentinels.
C8_Witness ==
    /\ NormDone /\ SingleKeyed /\ normOut.k = "returned"
    /\ TheEntry = Obj(<< <<"s", "o", "u", "r", "c", "e">>, <<"t", "e", "a", "m", "s">> >>, <<Str(<<"2", "w">>), Str(<<"2", "w">>)>>)
    /\ TheRecord.ubuntuVersion = <<"N", "/", "A">> /\ TheRecord.debianVersion = <<"N", "/", "A">>
    /\ TheRecord.uploader = <<"U", "n", "k", "n", "o", "w", "n">> /\ TheRecord.teams = <<>>
    /\ TheRecord.age = <<"0", "d">> /\ TheRecord.ageInDays = IntNum(0)

\* what a positional entry has to give besides its first three positions
PositionalRest(rec) ==
    /\ rec.teams = <<>>
    /\ rec.age = <<"0", "d">>
    /\ rec.ageInDays = IntNum(0)
    /\ rec.uploader = <<"U", "n", "k", "n", "o", "w", "n">>

PresentAt(item, i) == i < Len(item.items) /\ item.items[i + 1].t \notin {"null", "undefined"}

\* C9 as stated: a positional entry gives name, ubuntuVersion and
\* debianVersion from positions 0, 1 and 2, the sentinels standing in for
\* the positions that are missing (past the end, or null) only.
PositionIs(item, i, sentinel, got) ==
    got = (IF PresentAt(item, i) THEN JSToString(item.items[i + 1]).s ELSE sentinel)

C9_PositionalAsStated ==
    (NormDone /\ SinglePositional /\ normOut.k = "returned") =>
        /\ PositionIs(TheEntry, 0, Unknown, TheRecord.name)
        /\ PositionIs(TheEntry, 1, NotAvailable, TheRecord.ubuntuVersion)
        /\ PositionIs(TheEntry, 2, NotAvailable, TheRecord.debianVersion)
        /\ PositionalRest(TheRecord)

\* C9 amended: the sentinel stands in for a position that is missing or
\* falsy (null, false, 0, the empty string); a truthy position is taken,
\* converted by String(); teams, age, days and uploader are the defaults
\* whatever the array holds from position 3 on.
TruthyPositionIs(item, i, sentinel, got) ==
    got = (IF i < Len(item.items) /\ Truthy(item.items[i + 1])
           THEN JSToString(item.items[i + 1]).s ELSE sentinel)

C9_PositionalTruthy ==
    (NormDone /\ SinglePositional /\ normOut.k = "returned") =>
        /\ TruthyPositionIs(TheEntry, 0, Unknown, TheRecord.name)
        /\ TruthyPositionIs(TheEntry, 1, NotAvailable, TheRecord.ubuntuVersion)
        /\ TruthyPositionIs(TheEntry, 2, NotAvailable, TheRecord.debianVersion)
        /\ PositionalRest(TheRecord)

\* C9 witness: an array of four positions, the first one empty, normalized.
C9_Witness ==
    /\ NormDone /\ SinglePositional /\ normOut.k = "returned"
    /\ TheEntry = Arr(<<Str(<<>>), PkgA, PkgB, PkgA>>)
    /\ TheRecord.name = <<"U", "n", "k", "n", "o", "w", "n">>
    /\ TheRecord.ubuntuVersion = <<"p", "k", "g">> /\ TheRecord.debianVersion = <<"l", "i", "b">>
    /\ PositionalRest(TheRecord)

(***************************************************************************)
(* Claims about the combined result.                                       *)
(***************************************************************************)
MergeDone == phase = "done" /\ mergeOut # NoResult /\ mergeOut.k = "returned"

\* C6: in the combined result of the four batches no two records have the
\* same id, whatever the names, and every id embeds its record's tag.
C6_UniqueIds ==
    MergeDone =>
        /\ \A i, j \in 1..Len(mergeOut.recs) :
               i # j => mergeOut.recs[i].id # mergeOut.recs[j].id
        /\ \A i \in 1..Len(mergeOut.recs) :
               includes(mergeOut.recs[i].id, ComponentChars(mergeOut.recs[i].component))

\* C6 witness: the same name at the same position of two batches, and twice
\* in one batch, beside a name that ends in '-0'.
C6_Witness ==
    /\ MergeDone
    /\ batchData["Main"] = Arr(<<Arr(<<Str(<<"a">>)>>), Arr(<<Str(<<"a">>)>>)>>)
    /\ batchData["Universe"] = Arr(<<Arr(<<Str(<<"a">>)>>), Arr(<<Str(<<"a", "-", "0">>)>>)>>)
    /\ Len(mergeOut.recs) >= 4

(***************************************************************************)
(* Claims about the changelog entry extractor.                             *)
(***************************************************************************)
ExtractDone == phase = "done" /\ extractOut # NoResult

\* The blocks of a text, read off its lines: a block starts at each header
\* line (one-based index) and runs to the line before the next header.
TextLines == SplitLines(fullText)
HeaderLines == {i \in 1..Len(TextLines) : HeaderMatch(TextLines[i]).matched}
MatchingHeaders ==
    {i \in HeaderLines : VersionMatches(HeaderMatch(TextLines[i]).version, targetVersion)}
BlockLast(i) ==
    IF \E j \in HeaderLines : j > i
    THEN (CHOOSE j \in HeaderLines : j > i /\ \A m \in HeaderLines : m > i => j <= m) - 1
    ELSE Len(TextLines)
BlockText(i) == trim(JoinChars(SubSeq(TextLines, i, BlockLast(i)), <<"\n">>))

\* C10 as stated: whenever the target matches the header of block k, the
\* result is block k (its lines joined, outer white space trimmed), for
\* every such k.
C10_AnyMatchingBlock ==
    ExtractDone => \A k \in MatchingHeaders : extractOut.text = BlockText(k)

\* C10 amended: the result is block k for the first (topmost) block k whose
\* header matches the target: its lines from the header through the line
\* before the next header or the end of the text, joined and trimmed.
C10_FirstMatchingBlock ==
    (ExtractDone /\ MatchingHeaders # {}) => extractOut.text = BlockText(Least(MatchingHeaders))

\* C10 witness: three blocks, the target names the middle one, and the
\* middle block alone came back.
C10_Witness ==
    /\ ExtractDone
    /\ fullText = JoinChars(<< <<"p", " ", "(", "1", ")">>, <<"p", " ", "(", "2", ")">>, <<" ", "*", " ", "x">>, <<"q", " ", "(", "3", ":", "2", ")", " ", "u">> >>, <<"\n">>)
    /\ targetVersion = <<"2">>
    /\ extractOut.text = JoinChars(<< <<"p", " ", "(", "2", ")">>, <<" ", "*", " ", "x">> >>, <<"\n">>)

(***************************************************************************)
(* C11: matching ignores the epoch, in both directions                     *)
(***************************************************************************)
\* whether a version carries an epoch, and what follows its last ':'
HasEpoch(v) == \E i \in 1..Len(v) : v[i] = ":"
RECURSIVE AfterLastColon(_)
AfterLastColon(v) ==
    IF HasEpoch(v)
    THEN LET i == CHOOSE i \in 1..Len(v) : v[i] = ":" /\ \A j \in 1..(i - 1) : v[j] # ":"
         IN AfterLastColon(SubSeq(v, i + 1, Len(v)))
    ELSE v
HeaderVersion(i) == HeaderMatch(TextLines[i]).version
SameAfterEpoch(i) == AfterLastColon(HeaderVersion(i)) = AfterLastColon(targetVersion)

\* the topmost header that agrees with the target after the last ':' while
\* exactly one of the two carries an epoch
EpochOnlyDiffers(k) ==
    /\ k \in HeaderLines
    /\ SameAfterEpoch(k)
    /\ HasEpoch(HeaderVersion(k)) # HasEpoch(targetVersion)
    /\ \A j \in HeaderLines : j < k => ~SameAfterEpoch(j)

\* C11: a header whose version equals the target after the last ':', one of
\* the two carrying an epoch and the other none, matches: when it is the
\* topmost such header, its block is what extractChangelogEntry returns.
C11_EpochInsensitive ==
    ExtractDone => \A k \in 1..Len(TextLines) :
                       EpochOnlyDiffers(k) => extractOut.text = BlockText(k)

\* C11 witness: the target carries an epoch, the second header names the
\* same version without one, and the second block came back.
C11_Witness ==
    /\ ExtractDone
    /\ targetVersion = <<"1", ":", "2">>
    /\ fullText = JoinChars(<< <<"p", " ", "(", "1", ")">>, <<"p", " ", "(", "2", ")">>, <<" ", "*", " ", "x">> >>, <<"\n">>)
    /\ EpochOnlyDiffers(2)
    /\ extractOut.text = JoinChars(<< <<"p", " ", "(", "2", ")">>, <<" ", "*", " ", "x">> >>, <<"\n">>)

(***************************************************************************)
(* C12: the fallback law                                                   *)
(***************************************************************************)
\* no header names the target, exactly or after the last ':'
TargetAbsent ==
    \A i \in HeaderLines : HeaderVersion(i) # targetVersion /\ ~SameAfterEpoch(i)

\* C12: when the text has a header and the target matches none, the result
\* is what extractChangelogEntry returns for the version named in the first
\* header: the first block.
C12_FallbackLaw ==
    (ExtractDone /\ HeaderLines # {} /\ TargetAbsent)
        => /\ extractOut.text
                  = extractChangelogEntry(fullText, HeaderVersion(Least(HeaderLines)))
           /\ extractOut.text = BlockText(Least(HeaderLines))

\* C12 witness: two blocks, a target neither names, and the first block
\* came back.
C12_Witness ==
    /\ ExtractDone
    /\ targetVersion = <<"9">>
    /\ fullText = JoinChars(<< <<"p", " ", "(", "1", ")">>, <<" ", "*", " ", "x">>, <<"p", " ", "(", "2", ")">> >>, <<"\n">>)
    /\ TargetAbsent
    /\ extractOut.text = JoinChars(<< <<"p", " ", "(", "1", ")">>, <<" ", "*", " ", "x">> >>, <<"\n">>)

(***************************************************************************)
(* C13: text without any header                                            *)
(***************************************************************************)
\* C13: a text with no header line comes back whole and unchanged, its
\* outer white space included, whatever the target.
C13_UnstructuredUnchanged ==
    (ExtractDone /\ HeaderLines = {}) => extractOut.text = fullText

\* C13 witness: a text without a header that begins with a space and ends
\* with an empty line came back with both.
C13_Witness ==
    /\ ExtractDone
    /\ HeaderLines = {}
    /\ fullText = JoinChars(<< <<" ", "*", " ", "x">>, <<"e", "n", "d">>, <<>> >>, <<"\n">>)
    /\ fullText # trim(fullText)
    /\ extractOut.text = fullText

(***************************************************************************)
(* C14: the result is a piece of the text                                  *)
(***************************************************************************)
\* s occurs in t as a run of consecutive characters
IsSubstring(s, t) ==
    \E i \in 0..(Len(t) - Len(s)) : \A j \in 1..Len(s) : t[i + j] = s[j]

\* C14: every call returns, and what it returns is a contiguous substring of
\* the text (possibly all of it).
C14_ReturnsSubstring ==
    ExtractDone => /\ extractOut.k = "returned"
                   /\ IsSubstring(extractOut.text, fullText)

\* C14 witness: a block of two lines came back that is neither the start nor
\* the end of the text.
C14_Witness ==
    /\ ExtractDone
    /\ targetVersion = <<"1">>
    /\ fullText = JoinChars(<< <<"e", "n", "d">>, <<"p", " ", "(", "1", ")">>, <<" ", "*", " ", "x">>, <<>> >>, <<"\n">>)
    /\ extractOut.text = JoinChars(<< <<"p", " ", "(", "1", ")">>, <<" ", "*", " ", "x">> >>, <<"\n">>)
    /\ IsSubstring(extractOut.text, fullText)
    /\ Len(extractOut.text) < Len(fullText)

(***************************************************************************)
(* Claims about the changelog validator.                                   *)
(***************************************************************************)
ValidDone == phase = "done" /\ validOut # NoResult
LooksLikeHtml ==
    LET t == toLowerCase(trim(validText))
    IN startsWith(t, DoctypePrefix) \/ startsWith(t, HtmlPrefix)

\* C15: the text is rejected when, trimmed and lower-cased, it starts with
\* '<!doctype' or '<html'; rejected when its trimmed length is 50 or less;
\* and accepted in every other case.
C15_ValidByTrimmedLength ==
    ValidDone => (validOut.ok <=> (~LooksLikeHtml /\ Len(trim(validText)) > MinLength))

\* the same with the length taken where the code takes it: of the trimmed
\* text after lower-casing
C15_ValidByLoweredLength ==
    ValidDone =>
        (validOut.ok <=> (~LooksLikeHtml /\ Len(toLowerCase(trim(validText))) > MinLength))

(***************************************************************************)
(* Claims about the proxy fallback.                                        *)
(***************************************************************************)
Call == fb[TheCall]
CallSettled == TheCall \in DOMAIN fb /\ Call.out # NoResult
CallStarted == TheCall \in DOMAIN fb

\* the proxies that would answer with a body, and the first of them
Succeeding == {i \in 1..Len(PROXIES) : Call.net[i].k = "ok"}
FirstSucceeding == Least(Succeeding)

\* the proxies contacted so far, in the order of the fetch calls
Contacted == [i \in 1..Len(Call.log) |-> Call.log[i].proxy]

\* C16: the proxies are contacted in their configured order, one attempt
\* each, never past the first that succeeds; every kind of failure moves on
\* to the next; and once a proxy succeeds the call resolves with its body
\* after as many fetch calls as that proxy's position.
C16_FirstSuccessWins ==
    CallStarted =>
        /\ Contacted = [i \in 1..Len(Call.log) |-> i]
        /\ Len(Call.log) <= Len(PROXIES)
        /\ Succeeding # {} => Len(Call.log) <= FirstSucceeding
        /\ (CallSettled /\ Succeeding # {}) =>
               /\ Call.out = Resolved(Call.net[FirstSucceeding].body)
               /\ Len(Call.log) = FirstSucceeding
        /\ (CallSettled /\ Succeeding = {}) => Call.out.k = "rejected"

\* C16 witness: a rejected fetch, then a response that is not ok, then a
\* body: the call resolved with the third proxy's body after three fetches.
C16_Witness ==
    /\ CallSettled
    /\ Call.kind = "json"
    /\ Call.net[1].k = "rejects" /\ Call.net[2].k = "status" /\ Call.net[3].k = "ok"
    /\ Len(Call.log) = 3
    /\ Call.out = Resolved(Call.net[3].body)

\* C16 witness of the early stop: a body that cannot be read, then a body;
\* the third proxy, which would have answered too, was never contacted.
C16_StopsEarly ==
    /\ CallSettled
    /\ Call.kind = "text"
    /\ Call.net[1].k = "badbody" /\ Call.net[2].k = "ok" /\ Call.net[3].k = "ok"
    /\ Contacted = <<1, 2>>
    /\ Call.out = Resolved(Call.net[2].body)

\* what the last proxy's failed attempt raised
LastRaised ==
    LET a == Call.net[Len(PROXIES)]
    IN IF a.k = "status" THEN StatusError(a.status) ELSE a.e
IsErrorValue(v) == v.t = "error"

\* C17: when every proxy fails the call rejects after exactly three
\* attempts, with the error the last attempt raised, and with the generic
\* 'Unable to fetch ...' error when no error value is held.
C17_LastErrorWins ==
    (CallSettled /\ Succeeding = {}) =>
        /\ Len(Call.log) = Len(PROXIES)
        /\ Call.out.k = "rejected"
        /\ IsErrorValue(LastRaised) => Call.out.error = LastRaised
        /\ ~IsErrorValue(LastRaised) =>
               Call.out.error = GenericError(Call.kind, Call.target)

\* C17 witness: three failures whose first and last errors differ, and the
\* call rejected with the last.
C17_Witness ==
    /\ CallSettled
    /\ Call.net[1] = Rejects(Err(<<"e", "1">>))
    /\ Call.net[2] = NotOk(500)
    /\ Call.net[3] = BadBody(Err(<<"e", "2">>))
    /\ Len(Call.log) = 3
    /\ Call.out = Rejected(Err(<<"e", "2">>))

\* C17 witness of the generic error: every attempt threw undefined.
C17_GenericWitness ==
    /\ CallSettled
    /\ Call.kind = "text"
    /\ \A i \in 1..Len(PROXIES) : Call.net[i] = Rejects(Undefined)
    /\ Call.out = Rejected(Err(<<"U", "n", "a", "b", "l", "e", " ", "t", "o", " ", "f", "e", "t", "c", "h", " ", "t", "e", "x", "t", " ", "f", "r", "o", "m", " ", "u">>))

(***************************************************************************)
(* Claims about the four concurrent fetches of fetchMergeData.             *)
(***************************************************************************)
BatchesStarted == DOMAIN fb = PackageSet
BatchesSettled == BatchesStarted /\ \A j \in PackageSet : fb[j].out # NoResult

\* what the pipeline of batch j yields: its records, or that it failed in
\* its retrieval or in its normalization
PipelineOf(j) ==
    IF fb[j].out.k = "rejected" THEN Raised
    ELSE normalizeData(fb[j].out.value, j)
BatchFailed(j) == PipelineOf(j) = Raised
RecordsOf(j) == IF BatchFailed(j) THEN <<>> ELSE PipelineOf(j).recs
InTagOrder ==
    RecordsOf("Main") \o RecordsOf("Universe") \o RecordsOf("Restricted")
        \o RecordsOf("Multiverse")

\* C18: when one of the four pipelines fails, in its retrieval or in its
\* normalization, the other three run to their end and their records are
\* combined into the result.
C18_OthersCombined ==
    (BatchesSettled /\ \E j \in PackageSet :
                           BatchFailed(j) /\ \A i \in PackageSet \ {j} : ~BatchFailed(i))
        => /\ mergeOut # NoResult
           /\ mergeOut.k = "returned"
           /\ mergeOut.recs = InTagOrder

\* C19: the result is the four normalized batches concatenated in the order
\* Main, Universe, Restricted, Multiverse, each in its own order, whatever
\* the order in which the fetches settled and whichever proxy served them.
C19_FixedOrder ==
    BatchesStarted =>
        /\ (mergeOut # NoResult /\ mergeOut.k = "returned") => mergeOut.recs = InTagOrder
        /\ (BatchesSettled /\ \A j \in PackageSet : ~BatchFailed(j))
               => (mergeOut # NoResult /\ mergeOut.k = "returned")

\* C19 witness: the fetches settled in the reverse of the tag order, Main
\* served by its second proxy, and the result starts with Main's record and
\* ends with Multiverse's two.
C19_Witness ==
    /\ BatchesSettled
    /\ gather = Fulfilled(<<"Multiverse", "Restricted", "Universe", "Main">>)
    /\ Len(fb["Main"].log) = 2
    /\ Len(fb["Multiverse"].log) = 1
    /\ mergeOut.k = "returned"
    /\ Len(mergeOut.recs) = 6
    /\ mergeOut.recs[1].component = "Main" /\ mergeOut.recs[1].name = <<"c">>
    /\ mergeOut.recs[5].component = "Multiverse" /\ mergeOut.recs[5].name = <<"a">>
    /\ mergeOut.recs[6].component = "Multiverse" /\ mergeOut.recs[6].name = <<"b">>

(***************************************************************************)
(* Claims about fetchChangelog.                                            *)
(***************************************************************************)
ChangelogStarted == cl # NoResult
RecordVersion == cl.pkg.ubuntuVersion

\* the candidate versions as the claim lists them: the raw version, the
\* version with every ':' written %3a, the version after its last ':',
\* each once
StatedCandidates == Unique(<< RecordVersion, ReplaceColons(RecordVersion),
                              AfterLastColon(RecordVersion) >>)
\* the same without the empty ones
NonEmptyCandidates == SelectSeq(StatedCandidates, LAMBDA v : v # <<>>)

\* the fetch of candidate i settled without a body that passes the validator
Skipped(i) ==
    \/ fb[i].out.k = "rejected"
    \/ fb[i].out.k = "resolved" /\ ~isValidChangelog(fb[i].out.value.s)

\* the call went through the candidates of the list as C20 says
TriesInOrder(list) ==
    /\ Len(fb) <= Len(list)
    /\ \A i \in 1..Len(fb) : fb[i].target = ChangelogUrl(cl.pkg, list[i])
    /\ \A i \in 1..(Len(fb) - 1) : fb[i].out # NoResult /\ Skipped(i)
    /\ \A i \in 1..Len(cl.extracted) : isValidChangelog(cl.extracted[i])
    /\ cl.out = NoResult => (Len(fb) >= 1 /\ fb[Len(fb)].out = NoResult)
    /\ (cl.out # NoResult /\ cl.out.k = "resolved") =>
           LET last == fb[Len(fb)]
           IN /\ last.out.k = "resolved"
              /\ isValidChangelog(last.out.value.s)
              /\ cl.extracted = <<last.out.value.s>>
              /\ cl.out.value = Str(extractChangelogEntry(last.out.value.s, RecordVersion))
    /\ (cl.out # NoResult /\ cl.out.k = "rejected") =>
           /\ Len(fb) = Len(list)
           /\ \A i \in 1..Len(fb) : fb[i].out # NoResult /\ Skipped(i)
           /\ cl.extracted = <<>>
           /\ cl.out.error = NotFoundError

\* C20 as stated: the candidates are the raw version, the %3a-encoded one
\* and the epoch-stripped one, without duplicates, tried in that order; a
\* candidate whose retrieval fails or whose body fails the validator is
\* skipped; the first validated body is extracted with the record's
\* ubuntuVersion and returned; no other body is ever extracted; and the call
\* rejects with 'Changelog not found ...' once every candidate is exhausted.
C20_CandidatesAsStated == ChangelogStarted => TriesInOrder(StatedCandidates)

\* C20 amended: the same over the candidates that are not empty (a version
\* that ends in ':' has no epoch-stripped candidate).
C20_NonEmptyCandidates == ChangelogStarted => TriesInOrder(NonEmptyCandidates)

\* C20 witness: version 1:2; the raw candidate fails on every proxy, the
\* encoded one is served a 404 page, the stripped one is served a changelog,
\* whose block for 1:2 is returned.
C20_Witness ==
    /\ ChangelogStarted
    /\ cl.pkg.name = <<"l", "i", "b", "f", "o", "o">>
    /\ RecordVersion = <<"1", ":", "2">>
    /\ Len(fb) = 3
    /\ fb[1].out.k = "rejected"
    /\ fb[2].out = Resolved(NotFoundPage)
    /\ fb[3].out = Resolved(ChangelogA)
    /\ fb[3].target = <<"h", "t", "t", "p", "s", ":", "/", "/", "c", "h", "a", "n", "g", "e", "l", "o", "g", "s", ".", "u", "b", "u", "n", "t", "u", ".", "c", "o", "m", "/", "c", "h", "a", "n", "g", "e", "l", "o", "g", "s", "/", "p", "o", "o", "l", "/", "m", "a", "i", "n", "/", "l", "i", "b", "f", "/", "l", "i", "b", "f", "o", "o", "/", "l", "i", "b", "f", "o", "o", "_", "2", "/", "c", "h", "a", "n", "g", "e", "l", "o", "g">>
    /\ fb[2].target = <<"h", "t", "t", "p", "s", ":", "/", "/", "c", "h", "a", "n", "g", "e", "l", "o", "g", "s", ".", "u", "b", "u", "n", "t", "u", ".", "c", "o", "m", "/", "c", "h", "a", "n", "g", "e", "l", "o", "g", "s", "/", "p", "o", "o", "l", "/", "m", "a", "i", "n", "/", "l", "i", "b", "f", "/", "l", "i", "b", "f", "o", "o", "/", "l", "i", "b", "f", "o", "o", "_", "1", "%", "3", "a", "2", "/", "c", "h", "a", "n", "g", "e", "l", "o", "g">>
    /\ cl.out = Resolved(Str(JoinChars(<< <<"p", "k", "g", " ", "(", "1", ":", "2", ")", " ", "u">>, <<" ", " ", "*", " ">> \o LongLine >>, <<"\n">>)))

(***************************************************************************)
(* Claims about the entries of a payload.                                  *)
(***************************************************************************)
\* the entries of the payload, and those that are neither null nor undefined
PayloadEntries == IF rawData.t = "object" THEN rawData.vals
                  ELSE IF rawData.t = "array" THEN rawData.items ELSE <<>>
Surviving == SelectSeq(PayloadEntries, LAMBDA e : e # Null /\ e # Undefined)

\* the record of an entry normalized alone
Alone(e) == normalizeData(Arr(<<e>>), component).recs[1]

\* C23: normalizeData skips null and undefined entries and gives one record
\* per remaining entry, in input order (for a keyed map, in the order of its
\* values); the index in each id is the record's zero-based position among
\* the surviving entries.
C23_OneRecordPerSurvivor ==
    NormDone /\ normOut.k = "returned" =>
        /\ Len(normOut.recs) = Len(Surviving)
        /\ \A i \in 1..Len(Surviving) :
               /\ [normOut.recs[i] EXCEPT !.id = <<>>] = [Alone(Surviving[i]) EXCEPT !.id = <<>>]
               /\ normOut.recs[i].id =
                      ComponentChars(component) \o <<"-">> \o normOut.recs[i].name
                          \o <<"-">> \o NatToChars(i - 1)

\* a null entry before an entry that is kept: the record has index 0
C23_Witness ==
    /\ NormDone /\ normOut.k = "returned"
    /\ Len(PayloadEntries) = 2 /\ PayloadEntries[1] = Null /\ PayloadEntries[2] = TestEntry
    /\ Len(normOut.recs) = 1
    /\ normOut.recs[1].id = ComponentChars(component) \o <<"-", "p", "k", "g", "-", "0">>

\* two entries kept, under a keyed map: indices 0 and 1, in the order of the values
C23_MapWitness ==
    /\ NormDone /\ normOut.k = "returned"
    /\ rawData.t = "object" /\ Len(Surviving) = 2 /\ Surviving[1] # Surviving[2]
    /\ normOut.recs[2].name = <<"p", "k", "g">> /\ normOut.recs[1].name # <<"p", "k", "g">>

(***************************************************************************)
(* Claims about the diagnostic name.                                       *)
(***************************************************************************)
\* 'Unknown (Keys: k1, k2, ...)' over the first min(5, n) keys as written
FirstKeys(item) == SubSeq(item.keys, 1, IF Len(item.keys) < 5 THEN Len(item.keys) ELSE 5)
RECURSIVE CommaJoined(_)
CommaJoined(ks) ==
    IF ks = <<>> THEN <<>>
    ELSE IF Len(ks) = 1 THEN ks[1]
    ELSE ks[1] \o <<",", " ">> \o CommaJoined(Tail(ks))
Diagnostic(item) == <<"U", "n", "k", "n", "o", "w", "n", " ", "(", "K", "e", "y", "s", ":", " ">> \o CommaJoined(FirstKeys(item)) \o <<")">>

\* the name candidates resolve: one of them holds a truthy value, the first of which is taken
NameResolves(item) == TruthyCands(item, NameKeys) # {}
ResolvedName(item) == CandValue(item, NameKeys[Least(TruthyCands(item, NameKeys))])

\* C24 as stated: a keyed entry in which no name candidate resolves is named
\* by the diagnostic string over its first min(5, n) keys as written; an
\* entry whose name resolves keeps the resolved name; a positional entry
\* never receives the diagnostic string.
C24_DiagnosticAsStated ==
    (NormDone /\ SingleEntry /\ normOut.k = "returned") =>
        /\ SingleKeyed /\ ~NameResolves(TheEntry) => TheRecord.name = Diagnostic(TheEntry)
        /\ SingleKeyed /\ NameResolves(TheEntry) =>
               TheRecord.name = JSToString(ResolvedName(TheEntry)).s
        /\ SinglePositional => ~startsWith(TheRecord.name, <<"U", "n", "k", "n", "o", "w", "n", " ", "(">>)

\* C24 amended: an entry whose name resolves to the string 'Unknown' is named
\* by the diagnostic string too; every other resolved name is kept.
C24_DiagnosticUnlessUnknown ==
    (NormDone /\ SingleEntry /\ normOut.k = "returned") =>
        /\ SingleKeyed /\ ~NameResolves(TheEntry) => TheRecord.name = Diagnostic(TheEntry)
        /\ SingleKeyed /\ NameResolves(TheEntry) =>
               TheRecord.name = IF ResolvedName(TheEntry) = Str(Unknown)
                                THEN Diagnostic(TheEntry)
                                ELSE JSToString(ResolvedName(TheEntry)).s
        /\ SinglePositional => ~startsWith(TheRecord.name, <<"U", "n", "k", "n", "o", "w", "n", " ", "(">>)

\* six keys, none a name candidate: the first five are listed as written
C24_Witness ==
    /\ NormDone /\ SingleKeyed /\ normOut.k = "returned"
    /\ TheEntry = ManyKeysEntry
    /\ TheRecord.name = <<"U", "n", "k", "n", "o", "w", "n", " ", "(", "K", "e", "y", "s", ":", " ", "S", "t", "a", "t", "u", "s", ",", " ", "b", ",", " ", "C", ",", " ", "d", ",", " ", "e", ")">>

(***************************************************************************)
(* Claims about the case of the keys.                                      *)
(***************************************************************************)
\* the keys of an entry written in capitals, in small letters, and with a
\* capital first letter
ToUpperChar(c) ==
    IF \E i \in 1..26 : LowerChars[i] = c
    THEN UpperChars[CHOOSE i \in 1..26 : LowerChars[i] = c]
    ELSE c
UpperCased(k) == [i \in 1..Len(k) |-> ToUpperChar(k[i])]
LowerCased(k) == [i \in 1..Len(k) |-> ToLowerChar(k[i])]
Capitalized(k) == [i \in 1..Len(k) |-> IF i = 1 THEN ToUpperChar(k[i]) ELSE ToLowerChar(k[i])]
Recased(item, how) ==
    Obj([i \in 1..Len(item.keys) |->
            CASE how = "upper" -> UpperCased(item.keys[i])
              [] how = "lower" -> LowerCased(item.keys[i])
              [] how = "capitalized" -> Capitalized(item.keys[i])
              [] OTHER -> IF i % 2 = 1 THEN UpperCased(item.keys[i]) ELSE LowerCased(item.keys[i])],
        item.vals)
Recasings == {"upper", "lower", "capitalized", "mixed"}

\* no two keys of the entry are equal after lower-casing
DistinctLowered(item) ==
    \A i, j \in 1..Len(item.keys) :
        i # j => LowerCased(item.keys[i]) # LowerCased(item.keys[j])

RecasedOut(how) == normalizeData(Arr(<<Recased(TheEntry, how)>>), component)

SameButName(r1, r2) ==
    /\ r1.ubuntuVersion = r2.ubuntuVersion /\ r1.debianVersion = r2.debianVersion
    /\ r1.teams = r2.teams /\ r1.age = r2.age /\ r1.ageInDays = r2.ageInDays
    /\ r1.uploader = r2.uploader

\* C26 as stated: changing the letter case of a keyed entry's keys, values
\* unchanged and no two keys equal after lower-casing, yields a record with
\* the same name, versions, teams, age, ageInDays and uploader.
C26_CaseInsensitive ==
    (NormDone /\ SingleKeyed /\ DistinctLowered(TheEntry)) =>
        \A how \in Recasings :
            /\ RecasedOut(how).k = normOut.k
            /\ normOut.k = "returned" =>
                   /\ SameButName(RecasedOut(how).recs[1], TheRecord)
                   /\ RecasedOut(how).recs[1].name = TheRecord.name

\* C26 amended: the name is the same when it is a resolved one; a diagnostic
\* name lists the keys as each entry writes them.
C26_CaseInsensitiveResolved ==
    (NormDone /\ SingleKeyed /\ DistinctLowered(TheEntry)) =>
        \A how \in Recasings :
            /\ RecasedOut(how).k = normOut.k
            /\ normOut.k = "returned" =>
                   /\ SameButName(RecasedOut(how).recs[1], TheRecord)
                   /\ RecasedOut(how).recs[1].name =
                          IF NameResolves(TheEntry) /\ ResolvedName(TheEntry) # Str(Unknown)
                          THEN TheRecord.name
                          ELSE Diagnostic(Recased(TheEntry, how))

\* an entry whose name and version keys are in small letters and resolve: in
\* capitals it gives the same record
C26_Witness ==
    /\ NormDone /\ SingleKeyed /\ normOut.k = "returned"
    /\ TheEntry = Obj(<< <<"s", "o", "u", "r", "c", "e">>, <<"a", "g", "e">> >>, <<Str(<<"2", "w">>), Num(14)>>)
    /\ Recased(TheEntry, "upper") = Obj(<< <<"S", "O", "U", "R", "C", "E">>, <<"A", "G", "E">> >>, <<Str(<<"2", "w">>), Num(14)>>)
    /\ RecasedOut("upper").recs[1].name = <<"2", "w">> /\ TheRecord.name = <<"2", "w">>
    /\ RecasedOut("upper").recs[1].age = <<"1", "4">> /\ TheRecord.age = <<"1", "4">>
    /\ TheRecord.ageInDays = IntNum(14)

(***************************************************************************)
(* C29: several headers match the target                                   *)
(***************************************************************************)
\* the headers that name the target exactly, and those that name it after
\* the last ':' of both
ExactHeaders == {k \in HeaderLines : HeaderVersion(k) = targetVersion}
AgreeingHeaders == {k \in HeaderLines : HeaderVersion(k) = targetVersion \/ SameAfterEpoch(k)}

\* C29: when several headers match the target, the block starts at the
\* topmost header whose version equals the target exactly or after epoch
\* stripping: an earlier header that matches only after stripping wins over
\* a later exact one, and a header whose epoch differs from the target's
\* matches as well.
C29_TopmostAgreeingHeader ==
    (ExtractDone /\ AgreeingHeaders # {}) =>
        extractOut.text = BlockText(Least(AgreeingHeaders))

\* two epochs that differ in the first header, the exact version in a later
\* one: the first block came back
C29_Witness ==
    /\ ExtractDone
    /\ targetVersion = <<"1", ":", "2">>
    /\ fullText = JoinChars(<< <<"q", " ", "(", "3", ":", "2", ")", " ", "u">>, <<" ", "*", " ", "x">>, <<"p", " ", "(", "1", ":", "2", ")">> >>, <<"\n">>)
    /\ ExactHeaders = {3} /\ Least(AgreeingHeaders) = 1
    /\ extractOut.text = JoinChars(<< <<"q", " ", "(", "3", ":", "2", ")", " ", "u">>, <<" ", "*", " ", "x">> >>, <<"\n">>)

(***************************************************************************)
(* C27: the page of PackageList                                            *)
(***************************************************************************)
ListMounted == packageList # NoResult

\* the pages there are: ceil(filtered count / 25), the count taken over the
\* records that pass every filter
FilteredCount ==
    Cardinality({i \in 1..Len(packageList.data) : Matches(packageList, packageList.data[i])})
PagesNeeded == CHOOSE n \in 0..Len(packageList.data) :
                   n * 25 >= FilteredCount /\ (n = 0 \/ (n - 1) * 25 < FilteredCount)
PageInRange ==
    ListMounted =>
        /\ packageList.currentPage >= 1
        /\ packageList.currentPage <= (IF PagesNeeded < 1 THEN 1 ELSE PagesNeeded)

\* a step that edits the search or changes a filter
FiltersOf(l) == <<l.searchTerm, l.filterComponent, l.filterTeam, l.filterAge, l.filterUploader>>
FiltersChange == ListMounted /\ FiltersOf(packageList') # FiltersOf(packageList)

\* C27: over a fixed data set, after any sequence of search edits, filter
\* changes, sort toggles and Previous/Next clicks, currentPage stays within
\* 1..max(1, totalPages), totalPages = ceil(filtered count / 25); every
\* search or filter change resets currentPage to 1, and Previous/Next never
\* move outside the range.
C27_PageWithinRange ==
    /\ []PageInRange
    /\ [][FiltersChange => packageList'.currentPage = 1]_vars
    /\ [][ListMounted => packageList'.data = packageList.data]_vars

\* the second and last page of the records of one team
C27_Witness ==
    /\ ListMounted
    /\ packageList.filterTeam = <<"d", "e", "s", "k">>
    /\ FilteredCount > 25 /\ PagesNeeded = 2
    /\ packageList.currentPage = 2

(***************************************************************************)
(* C30: the age classes of the Dashboard and of PackageList                *)
(***************************************************************************)
BinsShown == dashboard # NoResult /\ packageList # NoResult /\ Len(packageList.data) = 1
TheAge == packageList.data[1].ageInDays

\* the count the chart shows under a label, and whether the list filtered
\* by that label keeps the record
ChartCount(label) ==
    LET rows == ageChartData(dashboard)
    IN rows[CHOOSE i \in 1..Len(rows) : rows[i].name = label].count
Listed(label) == filteredData([packageList EXCEPT !.filterAge = label]) # <<>>

\* C30: the Dashboard's age bins and PackageList's age filters of the same
\* label classify every record alike: for every non-negative integer
\* ageInDays the record is counted in the bin labelled L exactly when the
\* filter labelled L selects it, and it falls in exactly one of the four.
C30_SameClasses ==
    BinsShown =>
        /\ \A i \in 1..Len(AgeLabels) : ChartCount(AgeLabels[i]) = 1 <=> Listed(AgeLabels[i])
        /\ Cardinality({i \in 1..Len(AgeLabels) : ChartCount(AgeLabels[i]) = 1}) = 1
        /\ Cardinality({i \in 1..Len(AgeLabels) : Listed(AgeLabels[i])}) = 1
        /\ packageList.filterAge # "All" =>
               (filteredData(packageList) # <<>> <=> ChartCount(packageList.filterAge) = 1)

\* the two agree on every age but the seventh day
C30_SameClassesButDaySeven ==
    BinsShown /\ TheAge # 7 =>
        /\ \A i \in 1..Len(AgeLabels) : ChartCount(AgeLabels[i]) = 1 <=> Listed(AgeLabels[i])
        /\ Cardinality({i \in 1..Len(AgeLabels) : Listed(AgeLabels[i])}) = 1

(***************************************************************************)
(* C25: the sources of fetchDebianChangelog                                *)
(***************************************************************************)
DebianStarted == dcl # NoResult
DebianVersion == dcl.pkg.debianVersion
DebianName == dcl.pkg.name

\* the four URLs as the claim lists them, built with the version after its
\* last ':'
FtpMasterStated(comp) ==
    <<"h", "t", "t", "p", "s", ":", "/", "/", "m", "e", "t", "a", "d", "a", "t", "a", ".", "f", "t", "p", "-", "m", "a", "s", "t", "e", "r", ".", "d", "e", "b", "i", "a", "n", ".", "o", "r", "g", "/", "c", "h", "a", "n", "g", "e", "l", "o", "g", "s", "/">> \o comp \o <<"/">>
        \o PoolPrefix(DebianName) \o <<"/">> \o DebianName \o <<"/">> \o DebianName \o <<"_">>
        \o AfterLastColon(DebianVersion) \o <<"_", "c", "h", "a", "n", "g", "e", "l", "o", "g">>
StatedSources ==
    << FtpMasterStated(<<"m", "a", "i", "n">>), FtpMasterStated(<<"c", "o", "n", "t", "r", "i", "b">>), FtpMasterStated(<<"n", "o", "n", "-", "f", "r", "e", "e">>),
       <<"h", "t", "t", "p", "s", ":", "/", "/", "t", "r", "a", "c", "k", "e", "r", ".", "d", "e", "b", "i", "a", "n", ".", "o", "r", "g", "/", "m", "e", "d", "i", "a", "/", "p", "a", "c", "k", "a", "g", "e", "s", "/">> \o PoolPrefix(DebianName) \o <<"/">>
           \o DebianName \o <<"/", "c", "h", "a", "n", "g", "e", "l", "o", "g", "-">> \o AfterLastColon(DebianVersion) >>

\* C25: fetchDebianChangelog tries ftp-master main, contrib, non-free, then
\* tracker.debian.org, in that order, with the epoch-stripped version in
\* every URL; a source whose retrieval fails or whose body fails
\* isValidChangelog is skipped; the first validated body is extracted with
\* the record's full debianVersion and no later source is contacted; when
\* all four fail the call rejects with 'Debian changelog not found'.
C25_DebianSourcesInOrder ==
    DebianStarted =>
        /\ Len(fb) <= 4
        /\ \A i \in 1..Len(fb) : fb[i].target = StatedSources[i]
        /\ \A i \in 1..(Len(fb) - 1) : fb[i].out # NoResult /\ Skipped(i)
        /\ \A i \in 1..Len(dcl.extracted) : isValidChangelog(dcl.extracted[i])
        /\ dcl.out = NoResult => (Len(fb) >= 1 /\ fb[Len(fb)].out = NoResult)
        /\ (dcl.out # NoResult /\ dcl.out.k = "resolved") =>
               LET last == fb[Len(fb)]
               IN /\ last.out.k = "resolved"
                  /\ isValidChangelog(last.out.value.s)
                  /\ dcl.extracted = <<last.out.value.s>>
                  /\ dcl.out.value = Str(extractChangelogEntry(last.out.value.s, DebianVersion))
        /\ (dcl.out # NoResult /\ dcl.out.k = "rejected") =>
               /\ Len(fb) = 4
               /\ \A i \in 1..4 : fb[i].out # NoResult /\ Skipped(i)
               /\ dcl.extracted = <<>>
               /\ dcl.out.error = Err(<<"D", "e", "b", "i", "a", "n", " ", "c", "h", "a", "n", "g", "e", "l", "o", "g", " ", "n", "o", "t", " ", "f", "o", "u", "n", "d">>)

\* version 1:2 of pkg: main is served a 404 page, contrib fails on every
\* proxy, non-free is served the changelog, whose block for 1:2 comes back;
\* the tracker is never asked
C25_Witness ==
    /\ DebianStarted
    /\ DebianVersion = <<"1", ":", "2">> /\ DebianName = <<"p", "k", "g">>
    /\ Len(fb) = 3
    /\ fb[1].target = <<"h", "t", "t", "p", "s", ":", "/", "/", "m", "e", "t", "a", "d", "a", "t", "a", ".", "f", "t", "p", "-", "m", "a", "s", "t", "e", "r", ".", "d", "e", "b", "i", "a", "n", ".", "o", "r", "g", "/", "c", "h", "a", "n", "g", "e", "l", "o", "g", "s", "/", "m", "a", "i", "n", "/", "p", "/", "p", "k", "g", "/", "p", "k", "g", "_", "2", "_", "c", "h", "a", "n", "g", "e", "l", "o", "g">>
    /\ fb[1].out.k = "resolved" /\ fb[1].out.value = NotFoundPage
    /\ fb[2].out.k = "rejected"
    /\ fb[3].target = <<"h", "t", "t", "p", "s", ":", "/", "/", "m", "e", "t", "a", "d", "a", "t", "a", ".", "f", "t", "p", "-", "m", "a", "s", "t", "e", "r", ".", "d", "e", "b", "i", "a", "n", ".", "o", "r", "g", "/", "c", "h", "a", "n", "g", "e", "l", "o", "g", "s", "/", "n", "o", "n", "-", "f", "r", "e", "e", "/", "p", "/", "p", "k", "g", "/", "p", "k", "g", "_", "2", "_", "c", "h", "a", "n", "g", "e", "l", "o", "g">>
    /\ fb[3].out.k = "resolved" /\ fb[3].out.value = ChangelogA
    /\ dcl.out.k = "resolved"
    /\ dcl.out.value = Str(JoinChars(<< <<"p", "k", "g", " ", "(", "1", ":", "2", ")", " ", "u">>, <<" ", " ", "*", " ">> \o LongLine >>, <<"\n">>))

\* every source failed: the call rejected after the tracker
C25_AllFailWitness ==
    /\ DebianStarted /\ dcl.out # NoResult /\ dcl.out.k = "rejected"
    /\ Len(fb) = 4 /\ fb[4].target = StatedSources[4]
    /\ fb[4].out.k = "rejected"

(***************************************************************************)
(* C21: the join of the two fetches of ComparisonModal                     *)
(***************************************************************************)
\* the run of the effect that the open modal displays: the latest one
ComparisonShown == comparisonModal.pkg # Null /\ comparisonModal.isOpen
CurrentRun == comparisonModal.runs[Len(comparisonModal.runs)]

\* what a panel shows for a fetch that settled as out, once nothing loads
SideShows(panel, out) ==
    /\ out.k = "resolved" /\ ~comparisonModal.loading
           => panel = [unavailable |-> FALSE, body |-> out.value]
    /\ out.k = "rejected" => panel.unavailable

\* C21: while the modal is open, whatever the outcomes of its two fetches
\* and the order in which they settle, a side whose fetch succeeded shows
\* its text and a side whose fetch failed shows 'Unavailable', each
\* whatever the other side did, and loading has ended only if both fetches
\* have settled.
C21_PartialFailureJoin ==
    ComparisonShown =>
        /\ ~comparisonModal.loading => AllSettled(CurrentRun)
        /\ SideShows(UbuntuPanel(comparisonModal), CurrentRun.p1)
        /\ SideShows(DebianPanel(comparisonModal), CurrentRun.p2)

(***************************************************************************)
(* C28: what ChangelogModal shows is the result of its current fetch       *)
(***************************************************************************)
ModalShown == changelogModal.pkg # Null /\ ModalIsOpen(changelogModal)
\* the run of the effect issued for what the open modal displays: the latest
ModalRun == changelogModal.runs[Len(changelogModal.runs)]

\* C28: while the modal is open, its loading, error and changelog state are
\* those of the fetch issued for the package and variant it displays: it
\* loads exactly while that fetch is pending, is in error exactly if that
\* fetch failed, and otherwise the text is what that fetch resolved with; a
\* fetch of an earlier opening that settles late changes none of the three.
C28_NoStaleChangelog ==
    ModalShown =>
        /\ ModalRun.pkg = changelogModal.pkg
        /\ ModalRun.variant = ModalVariant(changelogModal)
        /\ changelogModal.loading = (ModalRun.out = NoResult)
        /\ changelogModal.error = (ModalRun.out.k = "rejected")
        /\ ModalRun.out.k = "resolved" => changelogModal.changelog = ModalRun.out.value

(***************************************************************************)
(* C22: the life-cycle of a load of the App                                *)
(***************************************************************************)
LastAttempt == app.attempts[Len(app.attempts)]
AttemptSettled(i) == i \in DOMAIN app.attempts /\ app.attempts[i].out # NoResult
AttemptResumed(i) == i \in DOMAIN app.attempts /\ app.attempts[i].resumed

\* an attempt that has not ended shows the spinner; one that ended shows the
\* error with its retry button if its fetchMergeData rejected, and the data
\* fetchMergeData resolved with otherwise
AttemptShown ==
    app.attempts # <<>> =>
        AppView(app) =
            IF ~LastAttempt.resumed THEN [t |-> "loading"]
            ELSE IF LastAttempt.out.k = "rejected"
                 THEN [t |-> "error", message |-> ConnectionError, retry |-> TRUE]
                 ELSE [t |-> "content", data |-> LastAttempt.out.value]

\* a step that starts an attempt after the first one is a retry
RetryStep ==
    /\ app.attempts # <<>>
    /\ Len(app'.attempts) = Len(app.attempts) + 1

\* a retry is made from the error state, clears the error, re-enters loading
\* and calls fetchMergeData again
RetryRestarts ==
    RetryStep =>
        /\ AppView(app).t = "error"
        /\ app'.error = Null
        /\ AppView(app').t = "loading"
        /\ app'.attempts[Len(app'.attempts)].out = NoResult

\* C22: every loadData attempt whose fetchMergeData settled leaves the
\* loading state; an attempt ends in the error state with the retry action
\* exactly when its fetchMergeData rejected and otherwise shows the fetched
\* data; a retry starts a new attempt that clears the error, re-enters
\* loading and calls fetchMergeData again.
C22_LoadLifeCycle ==
    /\ \A i \in 1..MaxAttempts :
           (AttemptSettled(i) /\ ~AttemptResumed(i)) ~> (AttemptResumed(i) /\ ~app.loading)
    /\ []AttemptShown
    /\ [][RetryRestarts]_vars

\* a first attempt that rejected and a retry that resolved, whose data is shown
C22_Witness ==
    /\ Len(app.attempts) = 2
    /\ app.attempts[1].out.k = "rejected"
    /\ app.attempts[2].resumed
    /\ app.attempts[2].out.k = "resolved"
    /\ app.attempts[2].out.value # <<>>
    /\ AppView(app) = [t |-> "content", data |-> app.attempts[2].out.value]

====
